---- MODULE Spec2Model ----
(***************************************************************************)
(* Model of the subtitle core of video-subtitle-app: the script mapper     *)
(* (utils/latinToCyrillic.ts), the format codec (utils/srtParser.ts), the  *)
(* cue formatter and timing normalizer (services/subtitleService.ts), and  *)
(* the places where the controllers and the client editor build or edit   *)
(* the cue list of a project.                                              *)
(*                                                                         *)
(* Representation.  A JavaScript string is a sequence of UTF-16 code       *)
(* units, written here as a sequence of integers (97 is "a", 32 the space, *)
(* 10 the line feed, 1034 is U+040A).  A time is an integer number of      *)
(* ticks of 0.1 ms (10000 ticks are one second), so that the rounding to   *)
(* milliseconds the code performs is visible; arithmetic on ticks is exact *)
(* where the code computes in binary floating point.                       *)
(***************************************************************************)
EXTENDS Integers, Sequences, FiniteSets, TLC

VARIABLES
  tText,   \* script mapper: the string the caller passes in
  tOps,    \* script mapper: the functions called so far, in order
  tVals,   \* script mapper: what each call returned, in order
  oSubs,   \* formatter: the cue list passed to the call
  oReq,    \* formatter: the method called and its layout arguments
  oPc,     \* formatter: "called" before the method body runs, "done" after
  oOut,    \* formatter: the cue list returned
  oError,  \* formatter: the error thrown by the call, "none" if it returned
  cCues,   \* codec: the cue list to serialize
  cFormat, \* codec: "srt" for generateSRT, "vtt" for generateVTT
  cPc,     \* codec: "start", then "generated", then "parsed"
  cFile,   \* codec: the subtitle file text
  cParsed, \* codec: the cue list parseSRT returned
  kT,      \* timecode: the time passed to secondsToSrtTime, in ticks
  kPc,     \* timecode: "start", then "formatted", then "read"
  kCode,   \* timecode: the string secondsToSrtTime returned
  kBack,   \* timecode: the time srtTimeToSeconds read from it, in ticks
  fBlocks, \* subtitle file: the kinds of the blocks it was written from
  vSegs,   \* transcription: the segments the recognition service returned
  vConvert,\* transcription: the convertToCyrillic flag of the request
  vPc,     \* transcription: "called" before transcribeVideo maps them, "done" after
  vSubs,   \* transcription: the cue list stored in the project
  jSubs,   \* project: the cue list of the project, as edited so far
  jSteps,  \* project: the number of operations applied to it
  oAgain,  \* formatter: the cue list a second pass over oOut returned
  pStore,  \* project store: the ids that are keys of the projects map
  pStatus, \* project store: the status field of the project object of each id
  pCues,   \* project store: whether the project object of each id holds cues
  pCalls,  \* project store: the transcribeVideo requests and where each one is
  pDeleted,\* project store: the ids for which deleteVideo has answered success
  gReq,    \* password gate: the request received (method, path, password data)
  gStage,  \* password gate: the layer of the app the request has reached
  gAnswer  \* password gate: what answered the request, "none" while in flight

tvars == <<tText, tOps, tVals>>
ovars == <<oSubs, oReq, oPc, oOut, oError>>
cvars == <<cCues, cFormat, cPc, cFile, cParsed>>
kvars == <<kT, kPc, kCode, kBack>>
vvars == <<vSegs, vConvert, vPc, vSubs>>
jvars == <<jSubs, jSteps>>
pvars == <<pStore, pStatus, pCues, pCalls, pDeleted>>
gvars == <<gReq, gStage, gAnswer>>
nvars == <<oAgain, pStore, pStatus, pCues, pCalls, pDeleted, gReq, gStage, gAnswer>>
rvars == <<kT, kPc, kCode, kBack, fBlocks, vSegs, vConvert, vPc, vSubs, jSubs, jSteps,
           oAgain, pStore, pStatus, pCues, pCalls, pDeleted, gReq, gStage, gAnswer>>
vars == <<tText, tOps, tVals, oSubs, oReq, oPc, oOut, oError,
          cCues, cFormat, cPc, cFile, cParsed, kT, kPc, kCode, kBack, fBlocks,
          vSegs, vConvert, vPc, vSubs, jSubs, jSteps,
          oAgain, pStore, pStatus, pCues, pCalls, pDeleted, gReq, gStage, gAnswer>>

\* No conversion of a time is under way.
TimecodeIdle ==
  /\ kT = 0
  /\ kPc = "idle"
  /\ kCode = <<>>
  /\ kBack = 0

\* Nothing but the script mapper, the formatter and the codec is in use.
\* No file written from blocks is in use.
FileIdle == fBlocks = <<>>

\* No transcription is under way.
TranscriptionIdle ==
  /\ vSegs = <<>>
  /\ vConvert = FALSE
  /\ vPc = "idle"
  /\ vSubs = <<>>

\* No project is being edited.
ProjectIdle ==
  /\ jSubs = <<>>
  /\ jSteps = 0

\* No second pass of the formatter has run.
SecondPassIdle == oAgain = <<>>

\* The project store is not in use.
StoreIdle ==
  /\ pStore = {}
  /\ pStatus = <<>>
  /\ pCues = <<>>
  /\ pCalls = <<>>
  /\ pDeleted = {}

\* No request is at the password gate.
GateIdle ==
  /\ gReq = <<>>
  /\ gStage = "idle"
  /\ gAnswer = "none"

NewerIdle ==
  /\ SecondPassIdle
  /\ StoreIdle
  /\ GateIdle

RestIdle ==
  /\ TimecodeIdle
  /\ FileIdle
  /\ TranscriptionIdle
  /\ ProjectIdle
  /\ NewerIdle

(***************************************************************************)
(* Generic helpers on sequences.                                           *)
(***************************************************************************)
RECURSIVE Flatten(_)
Flatten(ss) == IF ss = <<>> THEN <<>> ELSE Head(ss) \o Flatten(Tail(ss))

RECURSIVE CountIn(_, _)
CountIn(s, S) ==
  IF s = <<>> THEN 0 ELSE (IF Head(s) \in S THEN 1 ELSE 0) + CountIn(Tail(s), S)

\* All sequences over S of length at most n.
RECURSIVE SeqsUpTo(_, _)
SeqsUpTo(S, n) ==
  IF n = 0 THEN {<<>>}
  ELSE LET shorter == SeqsUpTo(S, n - 1)
       IN  shorter \cup {Append(s, c) : s \in {t \in shorter : Len(t) = n - 1}, c \in S}

(***************************************************************************)
(* utils/latinToCyrillic.ts                                                *)
(***************************************************************************)
\* The table of lines 7-29 as <<key, value>> pairs: a key is a string of one
\* or two code units, a value one Cyrillic code unit.
latinToCyrillicMap ==
  {
    <<<<76, 106>>, 1033>>, <<<<76, 74>>, 1033>>, <<<<108, 106>>, 1113>>, <<<<78, 106>>, 1034>>,
    <<<<78, 74>>, 1034>>, <<<<110, 106>>, 1114>>, <<<<68, 382>>, 1039>>, <<<<68, 381>>, 1039>>,
    <<<<100, 382>>, 1119>>, <<<<68, 122>>, 1039>>, <<<<68, 90>>, 1039>>, <<<<100, 122>>, 1119>>,
    <<<<272>>, 1026>>, <<<<273>>, 1106>>, <<<<68, 74>>, 1026>>, <<<<68, 106>>, 1026>>,
    <<<<100, 106>>, 1106>>, <<<<65>>, 1040>>, <<<<66>>, 1041>>, <<<<86>>, 1042>>,
    <<<<71>>, 1043>>, <<<<68>>, 1044>>, <<<<69>>, 1045>>, <<<<381>>, 1046>>,
    <<<<90>>, 1047>>, <<<<73>>, 1048>>, <<<<74>>, 1032>>, <<<<75>>, 1050>>,
    <<<<76>>, 1051>>, <<<<77>>, 1052>>, <<<<78>>, 1053>>, <<<<79>>, 1054>>,
    <<<<80>>, 1055>>, <<<<82>>, 1056>>, <<<<83>>, 1057>>, <<<<84>>, 1058>>,
    <<<<262>>, 1035>>, <<<<85>>, 1059>>, <<<<70>>, 1060>>, <<<<72>>, 1061>>,
    <<<<67>>, 1062>>, <<<<268>>, 1063>>, <<<<352>>, 1064>>, <<<<97>>, 1072>>,
    <<<<98>>, 1073>>, <<<<118>>, 1074>>, <<<<103>>, 1075>>, <<<<100>>, 1076>>,
    <<<<101>>, 1077>>, <<<<382>>, 1078>>, <<<<122>>, 1079>>, <<<<105>>, 1080>>,
    <<<<106>>, 1112>>, <<<<107>>, 1082>>, <<<<108>>, 1083>>, <<<<109>>, 1084>>,
    <<<<110>>, 1085>>, <<<<111>>, 1086>>, <<<<112>>, 1087>>, <<<<114>>, 1088>>,
    <<<<115>>, 1089>>, <<<<116>>, 1090>>, <<<<263>>, 1115>>, <<<<117>>, 1091>>,
    <<<<102>>, 1092>>, <<<<104>>, 1093>>, <<<<99>>, 1094>>, <<<<269>>, 1095>>,
    <<<<353>>, 1096>>
  }

LatinKeys == {e[1] : e \in latinToCyrillicMap}

LatinValue(k) == (CHOOSE e \in latinToCyrillicMap : e[1] = k)[2]

\* The table of lines 77-90 as <<key, value>> pairs: a key is one Cyrillic
\* code unit, a value a Latin string of one or two code units.
cyrillicToLatinMap ==
  {
    <<1040, <<65>>>>, <<1041, <<66>>>>, <<1042, <<86>>>>, <<1043, <<71>>>>,
    <<1044, <<68>>>>, <<1026, <<272>>>>, <<1045, <<69>>>>, <<1046, <<381>>>>,
    <<1047, <<90>>>>, <<1048, <<73>>>>, <<1032, <<74>>>>, <<1050, <<75>>>>,
    <<1051, <<76>>>>, <<1033, <<76, 106>>>>, <<1052, <<77>>>>, <<1053, <<78>>>>,
    <<1034, <<78, 106>>>>, <<1054, <<79>>>>, <<1055, <<80>>>>, <<1056, <<82>>>>,
    <<1057, <<83>>>>, <<1058, <<84>>>>, <<1035, <<262>>>>, <<1059, <<85>>>>,
    <<1060, <<70>>>>, <<1061, <<72>>>>, <<1062, <<67>>>>, <<1063, <<268>>>>,
    <<1039, <<68, 382>>>>, <<1064, <<352>>>>, <<1072, <<97>>>>, <<1073, <<98>>>>,
    <<1074, <<118>>>>, <<1075, <<103>>>>, <<1076, <<100>>>>, <<1106, <<273>>>>,
    <<1077, <<101>>>>, <<1078, <<382>>>>, <<1079, <<122>>>>, <<1080, <<105>>>>,
    <<1112, <<106>>>>, <<1082, <<107>>>>, <<1083, <<108>>>>, <<1113, <<108, 106>>>>,
    <<1084, <<109>>>>, <<1085, <<110>>>>, <<1114, <<110, 106>>>>, <<1086, <<111>>>>,
    <<1087, <<112>>>>, <<1088, <<114>>>>, <<1089, <<115>>>>, <<1090, <<116>>>>,
    <<1115, <<263>>>>, <<1091, <<117>>>>, <<1092, <<102>>>>, <<1093, <<104>>>>,
    <<1094, <<99>>>>, <<1095, <<269>>>>, <<1119, <<100, 382>>>>, <<1096, <<353>>>>
  }

CyrillicKeys == {e[1] : e \in cyrillicToLatinMap}

CyrillicValue(c) == (CHOOSE e \in cyrillicToLatinMap : e[1] = c)[2]

\* A loop whose bound is one too small: the last code unit is never visited.
RECURSIVE latinToCyrillicLoop_ShortBound(_, _, _)
latinToCyrillicLoop_ShortBound(text, i, result) ==
  IF i > Len(text) - 1 THEN result
  ELSE IF i + 1 <= Len(text) /\ <<text[i], text[i + 1]>> \in LatinKeys
       THEN latinToCyrillicLoop_ShortBound(text, i + 2,
                Append(result, LatinValue(<<text[i], text[i + 1]>>)))
       ELSE IF <<text[i]>> \in LatinKeys
            THEN latinToCyrillicLoop_ShortBound(text, i + 1,
                     Append(result, LatinValue(<<text[i]>>)))
            ELSE latinToCyrillicLoop_ShortBound(text, i + 1, Append(result, text[i]))

latinToCyrillic_ShortBound(text) ==
  IF text = <<>> THEN <<>> ELSE latinToCyrillicLoop_ShortBound(text, 1, <<>>)

\* A loop that tries the single-character entry before the two-character one.
RECURSIVE latinToCyrillicLoop_SingleFirst(_, _, _)
latinToCyrillicLoop_SingleFirst(text, i, result) ==
  IF i > Len(text) THEN result
  ELSE IF <<text[i]>> \in LatinKeys
       THEN latinToCyrillicLoop_SingleFirst(text, i + 1,
                Append(result, LatinValue(<<text[i]>>)))
       ELSE IF i + 1 <= Len(text) /\ <<text[i], text[i + 1]>> \in LatinKeys
            THEN latinToCyrillicLoop_SingleFirst(text, i + 2,
                     Append(result, LatinValue(<<text[i], text[i + 1]>>)))
            ELSE latinToCyrillicLoop_SingleFirst(text, i + 1, Append(result, text[i]))

latinToCyrillic_SingleFirst(text) ==
  IF text = <<>> THEN <<>> ELSE latinToCyrillicLoop_SingleFirst(text, 1, <<>>)

\* A loop whose else branch forgets to copy the character it does not map.
RECURSIVE latinToCyrillicLoop_DropUnmapped(_, _, _)
latinToCyrillicLoop_DropUnmapped(text, i, result) ==
  IF i > Len(text) THEN result
  ELSE IF i + 1 <= Len(text) /\ <<text[i], text[i + 1]>> \in LatinKeys
       THEN latinToCyrillicLoop_DropUnmapped(text, i + 2,
                Append(result, LatinValue(<<text[i], text[i + 1]>>)))
       ELSE IF <<text[i]>> \in LatinKeys
            THEN latinToCyrillicLoop_DropUnmapped(text, i + 1,
                     Append(result, LatinValue(<<text[i]>>)))
            ELSE latinToCyrillicLoop_DropUnmapped(text, i + 1, result)

latinToCyrillic_DropUnmapped(text) ==
  IF text = <<>> THEN <<>> ELSE latinToCyrillicLoop_DropUnmapped(text, 1, <<>>)

\* The while loop of lines 42-66: i is the 1-based position of text[i] of the
\* code (0-based), result the string built so far.
RECURSIVE latinToCyrillicLoop(_, _, _)
latinToCyrillicLoop(text, i, result) ==
  IF i > Len(text) THEN result
  ELSE IF i + 1 <= Len(text) /\ <<text[i], text[i + 1]>> \in LatinKeys
       THEN latinToCyrillicLoop(text, i + 2,
                Append(result, LatinValue(<<text[i], text[i + 1]>>)))
       ELSE IF <<text[i]>> \in LatinKeys
            THEN latinToCyrillicLoop(text, i + 1, Append(result, LatinValue(<<text[i]>>)))
            ELSE latinToCyrillicLoop(text, i + 1, Append(result, text[i]))

latinToCyrillic(text) ==
  IF text = <<>> THEN <<>> ELSE latinToCyrillicLoop(text, 1, <<>>)

\* A reverse table that gives a digraph letter only its first Latin letter.
cyrillicToLatin_FirstLetterOnly(text) ==
  IF text = <<>> THEN <<>>
  ELSE Flatten([i \in 1..Len(text) |->
         IF text[i] \in CyrillicKeys THEN <<CyrillicValue(text[i])[1]>> ELSE <<text[i]>>])

\* Lines 74-93: every code unit is replaced by its table entry, or kept.
cyrillicToLatin(text) ==
  IF text = <<>> THEN <<>>
  ELSE Flatten([i \in 1..Len(text) |->
         IF text[i] \in CyrillicKeys THEN CyrillicValue(text[i]) ELSE <<text[i]>>])

\* The classes [U+0400-U+04FF] and [a-zA-Z] of lines 100-101.
CyrillicBlock == 1024..1279
AsciiLetters == (97..122) \cup (65..90)

\* Lines 98-105.
isCyrillic(text) ==
  IF text = <<>> THEN FALSE
  ELSE CountIn(text, CyrillicBlock) > CountIn(text, AsciiLetters)

\* Lines 110-115.
ensureCyrillic(text) ==
  IF isCyrillic(text) THEN text ELSE latinToCyrillic(text)

(***************************************************************************)
(* The script mapper's callers: a string is chosen, then converted by one  *)
(* call or by two calls in a row (there and back, or ensureCyrillic        *)
(* twice).                                                                 *)
(***************************************************************************)
MaxStrLen == 3

\* N n J j D z z-caron a | q (a Latin letter outside the table), space | U+0448
SampleUnits == {78, 110, 74, 106, 68, 122, 382, 97, 113, 32, 1096}

\* "Njegova ku\u0107a" and the Cyrillic string the specification gives for it
Njegova == <<78, 106, 101, 103, 111, 118, 97, 32, 107, 117, 263, 97>>
NjegovaCyrillic == <<1034, 1077, 1075, 1086, 1074, 1072, 32, 1082, 1091, 1115, 1072>>

\* Every key of the table, every concatenation of two keys, every short
\* string over the sample, and the example.
ScriptInputs ==
  SeqsUpTo(SampleUnits, MaxStrLen)
    \cup LatinKeys
    \cup {k1 \o k2 : k1 \in LatinKeys, k2 \in LatinKeys}
    \cup {<<c>> : c \in CyrillicKeys}
    \cup {Njegova, NjegovaCyrillic}

Current == IF tVals = <<>> THEN tText ELSE tVals[Len(tVals)]

\* No call to the formatter is under way.
FormatterIdle ==
  /\ oSubs = <<>>
  /\ oReq = [fn |-> "none", aspectRatio |-> "", maxCharsPerLine |-> 0, maxLines |-> 0]
  /\ oPc = "idle"
  /\ oOut = <<>>
  /\ oError = "none"

\* No call to the codec is under way.
CodecIdle ==
  /\ cCues = <<>>
  /\ cFormat = "none"
  /\ cPc = "idle"
  /\ cFile = <<>>
  /\ cParsed = <<>>

InitScript ==
  /\ tText \in ScriptInputs
  /\ tOps = <<>>
  /\ tVals = <<>>
  /\ FormatterIdle
  /\ CodecIdle
  /\ RestIdle

LatinToCyrillicCall ==
  /\ tOps = <<>>
  /\ tOps' = Append(tOps, "latinToCyrillic")
  /\ tVals' = Append(tVals, latinToCyrillic(Current))
  /\ UNCHANGED <<tText, ovars, cvars, rvars>>

CyrillicToLatinCall ==
  /\ tOps \in {<<>>, <<"latinToCyrillic">>}
  /\ tOps' = Append(tOps, "cyrillicToLatin")
  /\ tVals' = Append(tVals, cyrillicToLatin(Current))
  /\ UNCHANGED <<tText, ovars, cvars, rvars>>

EnsureCyrillicCall ==
  /\ tOps \in {<<>>, <<"ensureCyrillic">>}
  /\ tOps' = Append(tOps, "ensureCyrillic")
  /\ tVals' = Append(tVals, ensureCyrillic(Current))
  /\ UNCHANGED <<tText, ovars, cvars, rvars>>

\* TransliterationService.isCyrillic: the answer is the one value of the call.
IsCyrillicCall ==
  /\ tOps = <<>>
  /\ tOps' = Append(tOps, "isCyrillic")
  /\ tVals' = Append(tVals, isCyrillic(tText))
  /\ UNCHANGED <<tText, ovars, cvars, rvars>>

NextScript ==
  \/ LatinToCyrillicCall
  \/ CyrillicToLatinCall
  \/ EnsureCyrillicCall
  \/ IsCyrillicCall

SpecScript == InitScript /\ [][NextScript]_vars

(***************************************************************************)
(* services/subtitleService.ts: the cue formatter.                         *)
(***************************************************************************)
\* The code units JavaScript's \s and trim() treat as white space.
WhiteSpace ==
  {9, 10, 11, 12, 13, 32, 160, 5760, 8232, 8233, 8239, 8287, 12288, 65279}
    \cup (8192..8202)

\* text.replace(/\n/g, ' ')
ReplaceNewlines(text) ==
  [i \in 1..Len(text) |-> IF text[i] = 10 THEN 32 ELSE text[i]]

\* The first position of text that holds white space (inWhiteSpace = TRUE) or
\* that does not (FALSE); Len(text) + 1 if there is none.
FirstPosition(text, inWhiteSpace) ==
  LET hits == {i \in 1..Len(text) : (text[i] \in WhiteSpace) = inWhiteSpace}
  IN  IF hits = {} THEN Len(text) + 1
      ELSE CHOOSE i \in hits : \A j \in hits : i <= j

From(text, i) == SubSeq(text, i, Len(text))

\* text.replace(/\s+/g, ' '): every maximal run of white space becomes one space.
RECURSIVE CollapseWhiteSpace(_)
CollapseWhiteSpace(text) ==
  LET run == FirstPosition(text, TRUE)
  IN  IF run > Len(text) THEN text
      ELSE LET rest == From(text, run)
           IN  SubSeq(text, 1, run - 1) \o <<32>>
                 \o CollapseWhiteSpace(From(rest, FirstPosition(rest, FALSE)))

TrimStart(text) == From(text, FirstPosition(text, FALSE))

TrimEnd(text) ==
  LET kept == {i \in 1..Len(text) : text[i] \notin WhiteSpace}
  IN  IF kept = {} THEN <<>>
      ELSE SubSeq(text, 1, CHOOSE i \in kept : \A j \in kept : j <= i)

\* String.prototype.trim
Trim(text) == TrimEnd(TrimStart(text))

\* text.split(/\s+/): the pieces between the runs of white space.  The empty
\* string splits into one empty piece.
RECURSIVE SplitWhiteSpace(_)
SplitWhiteSpace(text) ==
  LET run == FirstPosition(text, TRUE)
  IN  IF run > Len(text) THEN <<text>>
      ELSE LET rest == From(text, run)
           IN  <<SubSeq(text, 1, run - 1)>>
                 \o SplitWhiteSpace(From(rest, FirstPosition(rest, FALSE)))

\* text.split('\n'): the lines of a text.
RECURSIVE LinesOf(_)
LinesOf(text) ==
  LET breaks == {i \in 1..Len(text) : text[i] = 10}
  IN  IF breaks = {} THEN <<text>>
      ELSE LET b == CHOOSE i \in breaks : \A j \in breaks : i <= j
           IN  <<SubSeq(text, 1, b - 1)>> \o LinesOf(From(text, b + 1))

\* lines.join(sep)
RECURSIVE Join(_, _)
Join(parts, sep) ==
  IF parts = <<>> THEN <<>>
  ELSE IF Len(parts) = 1 THEN parts[1]
       ELSE parts[1] \o sep \o Join(Tail(parts), sep)

\* currentLine ? `${currentLine} ${word}` : word
TestLine(currentLine, word) ==
  IF currentLine # <<>> THEN currentLine \o <<32>> \o word ELSE word

\* A length test that forgets the space between the line and the word.
Fits_SpaceNotCounted(currentLine, word, maxCharsPerLine) ==
  Len(currentLine) + Len(word) <= maxCharsPerLine

\* testLine.length <= maxCharsPerLine
Fits(currentLine, word, maxCharsPerLine) ==
  Len(TestLine(currentLine, word)) <= maxCharsPerLine

\* The for loop of segmentTextSingleLine (lines 194-206) over the words left.
RECURSIVE singleLineLoop(_, _, _, _)
singleLineLoop(words, segments, currentLine, maxCharsPerLine) ==
  IF words = <<>>
  THEN [segments |-> segments, currentLine |-> currentLine]
  ELSE LET word == Head(words)
       IN  IF Fits(currentLine, word, maxCharsPerLine)
           THEN singleLineLoop(Tail(words), segments, TestLine(currentLine, word),
                               maxCharsPerLine)
           ELSE singleLineLoop(Tail(words),
                               IF currentLine # <<>> THEN Append(segments, currentLine)
                                                     ELSE segments,
                               word, maxCharsPerLine)

\* Lines 190-214.
segmentTextSingleLine(words, maxCharsPerLine) ==
  LET end == singleLineLoop(words, <<>>, <<>>, maxCharsPerLine)
      segments == IF end.currentLine # <<>> THEN Append(end.segments, end.currentLine)
                                            ELSE end.segments
  IN  IF Len(segments) > 0 THEN segments ELSE << <<>> >>

\* A loop that starts the next line empty when a word does not fit, and so
\* loses that word.
RECURSIVE multiLineLoop_DropsWord(_, _, _, _)
multiLineLoop_DropsWord(words, st, maxCharsPerLine, maxLines) ==
  IF words = <<>> THEN st
  ELSE LET word == Head(words)
       IN  IF Fits(st.currentLine, word, maxCharsPerLine)
           THEN multiLineLoop_DropsWord(Tail(words),
                              [st EXCEPT !.currentLine = TestLine(st.currentLine, word)],
                              maxCharsPerLine, maxLines)
           ELSE LET pushed ==
                      IF st.currentLine # <<>>
                      THEN [st EXCEPT !.currentSegment = Append(@, st.currentLine),
                                      !.lineCount = @ + 1]
                      ELSE st
                    closed ==
                      IF pushed.lineCount >= maxLines
                      THEN [pushed EXCEPT !.segments = Append(@, Join(pushed.currentSegment, <<10>>)),
                                          !.currentSegment = <<>>,
                                          !.lineCount = 0]
                      ELSE pushed
                IN  multiLineLoop_DropsWord(Tail(words), [closed EXCEPT !.currentLine = <<>>],
                                  maxCharsPerLine, maxLines)

\* The for loop of segmentText (lines 150-171) over the words left; st holds
\* segments, currentSegment, currentLine and lineCount.
RECURSIVE multiLineLoop(_, _, _, _)
multiLineLoop(words, st, maxCharsPerLine, maxLines) ==
  IF words = <<>> THEN st
  ELSE LET word == Head(words)
       IN  IF Fits(st.currentLine, word, maxCharsPerLine)
           THEN multiLineLoop(Tail(words),
                              [st EXCEPT !.currentLine = TestLine(st.currentLine, word)],
                              maxCharsPerLine, maxLines)
           ELSE LET pushed ==
                      IF st.currentLine # <<>>
                      THEN [st EXCEPT !.currentSegment = Append(@, st.currentLine),
                                      !.lineCount = @ + 1]
                      ELSE st
                    closed ==
                      IF pushed.lineCount >= maxLines
                      THEN [pushed EXCEPT !.segments = Append(@, Join(pushed.currentSegment, <<10>>)),
                                          !.currentSegment = <<>>,
                                          !.lineCount = 0]
                      ELSE pushed
                IN  multiLineLoop(Tail(words), [closed EXCEPT !.currentLine = word],
                                  maxCharsPerLine, maxLines)

\* Lines 134-184.
segmentText(text, maxCharsPerLine, maxLines) ==
  LET cleanText == Trim(CollapseWhiteSpace(ReplaceNewlines(text)))
      words == SplitWhiteSpace(cleanText)
  IN  IF maxLines = 1 THEN segmentTextSingleLine(words, maxCharsPerLine)
      ELSE LET end == multiLineLoop(words,
                        [segments |-> <<>>, currentSegment |-> <<>>,
                         currentLine |-> <<>>, lineCount |-> 0],
                        maxCharsPerLine, maxLines)
               lastSegment ==
                 IF end.currentLine # <<>> THEN Append(end.currentSegment, end.currentLine)
                                           ELSE end.currentSegment
               segments ==
                 IF Len(lastSegment) > 0 THEN Append(end.segments, Join(lastSegment, <<10>>))
                                         ELSE end.segments
           IN  IF Len(segments) > 0 THEN segments ELSE <<text>>

(***************************************************************************)
(* services/subtitleService.ts: time slicing and the timing normalizer.    *)
(***************************************************************************)
\* In ticks of 0.1 ms: MIN_DURATION = 1.0 s and MAX_DURATION = 5.0 s (lines
\* 65-66), the 0.1 s kept before the next cue (line 236) and the 0.5 s floor
\* (line 244).
MIN_DURATION == 10000
MAX_DURATION == 50000
NextCueGap == 1000
DurationFloor == 5000

Max(a, b) == IF a >= b THEN a ELSE b
Min(a, b) == IF a <= b THEN a ELSE b
Distance(a, b) == IF a >= b THEN a - b ELSE b - a

\* Math.round(x * 1000) / 1000 for x = num / den ticks (den > 0): x in
\* milliseconds is num / (10 den), and Math.round rounds a half upwards.
RoundToMs(num, den) == 10 * ((2 * num + 10 * den) \div (20 * den))

\* A normalizer that ends every cue 0.1 s before the next one, overlapping or
\* not.
adjustTiming_ClipsAlways(subtitles) ==
  [index \in 1..Len(subtitles) |->
    LET sub == subtitles[index]
        startTime == sub.startTime
        atLeastMin == IF sub.endTime - startTime < MIN_DURATION
                      THEN startTime + MIN_DURATION ELSE sub.endTime
        atMostMax == IF atLeastMin - startTime > MAX_DURATION
                     THEN startTime + MAX_DURATION ELSE atLeastMin
        endTime == IF index < Len(subtitles)
                   THEN subtitles[index + 1].startTime - NextCueGap
                   ELSE atMostMax
    IN  [sub EXCEPT !.startTime = Max(0, startTime),
                    !.endTime = Max(startTime + DurationFloor, endTime)]]

\* A normalizer without the minimum duration of lines 224-226.
adjustTiming_NoMinimum(subtitles) ==
  [index \in 1..Len(subtitles) |->
    LET sub == subtitles[index]
        startTime == sub.startTime
        atMostMax == IF sub.endTime - startTime > MAX_DURATION
                     THEN startTime + MAX_DURATION ELSE sub.endTime
        endTime == IF index < Len(subtitles)
                      /\ atMostMax > subtitles[index + 1].startTime - NextCueGap
                   THEN subtitles[index + 1].startTime - NextCueGap
                   ELSE atMostMax
    IN  [sub EXCEPT !.startTime = Max(0, startTime),
                    !.endTime = Max(startTime + DurationFloor, endTime)]]

\* A normalizer that returns the start as it came, negative or not.
adjustTiming_StartNotClamped(subtitles) ==
  [index \in 1..Len(subtitles) |->
    LET sub == subtitles[index]
        startTime == sub.startTime
        atLeastMin == IF sub.endTime - startTime < MIN_DURATION
                      THEN startTime + MIN_DURATION ELSE sub.endTime
        atMostMax == IF atLeastMin - startTime > MAX_DURATION
                     THEN startTime + MAX_DURATION ELSE atLeastMin
        endTime == IF index < Len(subtitles)
                      /\ atMostMax > subtitles[index + 1].startTime - NextCueGap
                   THEN subtitles[index + 1].startTime - NextCueGap
                   ELSE atMostMax
    IN  [sub EXCEPT !.endTime = Max(startTime + DurationFloor, endTime)]]

\* Lines 219-247.
adjustTiming(subtitles) ==
  [index \in 1..Len(subtitles) |->
    LET sub == subtitles[index]
        startTime == sub.startTime
        atLeastMin == IF sub.endTime - startTime < MIN_DURATION
                      THEN startTime + MIN_DURATION ELSE sub.endTime
        atMostMax == IF atLeastMin - startTime > MAX_DURATION
                     THEN startTime + MAX_DURATION ELSE atLeastMin
        endTime == IF index < Len(subtitles)
                      /\ atMostMax > subtitles[index + 1].startTime - NextCueGap
                   THEN subtitles[index + 1].startTime - NextCueGap
                   ELSE atMostMax
    IN  [sub EXCEPT !.startTime = Max(0, startTime),
                    !.endTime = Max(startTime + DurationFloor, endTime)]]

\* A slicer that gives every sub-cue the whole window of its parent.
SlicesOf_Unsliced(sub, maxCharsPerLine, maxLines) ==
  LET segments == segmentText(sub.text, maxCharsPerLine, maxLines)
  IN  [k \in 1..Len(segments) |->
        [id |-> 0, startTime |-> sub.startTime, endTime |-> sub.endTime,
         text |-> segments[k]]]

\* The cues pushed for one input cue (lines 111-125), before they are numbered.
SlicesOf(sub, maxCharsPerLine, maxLines) ==
  LET segments == segmentText(sub.text, maxCharsPerLine, maxLines)
      n == Len(segments)
      duration == sub.endTime - sub.startTime
  IN  [k \in 1..n |->
        [id |-> 0,
         startTime |-> RoundToMs(sub.startTime * n + (k - 1) * duration, n),
         endTime |-> RoundToMs(sub.startTime * n + k * duration, n),
         text |-> segments[k]]]

\* id: idCounter++ gives the i-th cue pushed the id i.
Numbered(cues) == [i \in 1..Len(cues) |-> [cues[i] EXCEPT !.id = i]]

\* The list optimized of lines 107-126, as it is when adjustTiming is called
\* on it (line 128).
optimized(subtitles, maxCharsPerLine, maxLines) ==
  Numbered(Flatten(
    [i \in 1..Len(subtitles) |-> SlicesOf(subtitles[i], maxCharsPerLine, maxLines)]))

\* A formatter that answers an empty list with a placeholder cue.
optimizeSubtitles_PlaceholderCue(subtitles, maxCharsPerLine, maxLines) ==
  IF subtitles = <<>> THEN <<[id |-> 1, startTime |-> 0, endTime |-> MIN_DURATION, text |-> <<>>]>>
  ELSE adjustTiming(Numbered(Flatten(
         [i \in 1..Len(subtitles) |-> SlicesOf(subtitles[i], maxCharsPerLine, maxLines)])))

\* Lines 106-129.
optimizeSubtitles(subtitles, maxCharsPerLine, maxLines) ==
  adjustTiming(Numbered(Flatten(
    [i \in 1..Len(subtitles) |-> SlicesOf(subtitles[i], maxCharsPerLine, maxLines)])))

\* Lines 51-62 and 83-92; a tag outside the tables gets 40 and 2.
AspectRatios == {"16:9", "9:16", "1:1"}

getMaxCharsForRatio(aspectRatio) ==
  CASE aspectRatio = "16:9" -> 42
    [] aspectRatio = "9:16" -> 40
    [] aspectRatio = "1:1" -> 35
    [] OTHER -> 40

getMaxLinesForRatio(aspectRatio) ==
  CASE aspectRatio \in AspectRatios -> 2
    [] OTHER -> 2

\* Lines 97-101.
optimizeForAspectRatio(subtitles, aspectRatio) ==
  optimizeSubtitles(subtitles, getMaxCharsForRatio(aspectRatio),
                    getMaxLinesForRatio(aspectRatio))

\* str.split(unit): the pieces between the occurrences of one code unit.
RECURSIVE SplitAt(_, _)
SplitAt(text, unit) ==
  LET hits == {i \in 1..Len(text) : text[i] = unit}
  IN  IF hits = {} THEN <<text>>
      ELSE LET h == CHOOSE i \in hits : \A j \in hits : i <= j
           IN  <<SubSeq(text, 1, h - 1)>> \o SplitAt(From(text, h + 1), unit)

\* newSubtitles.map((sub, i) => ({ ...sub, id: i + 1 }))
Renumbered(subtitles) ==
  [i \in 1..Len(subtitles) |-> [subtitles[i] EXCEPT !.id = i]]

\* array.filter((_, i) => i is none of the given positions), positions from 1.
Without(subtitles, positions) ==
  LET kept == {i \in 1..Len(subtitles) : i \notin positions}
      Pick[n \in 0..Len(subtitles)] ==
        IF n = 0 THEN <<>>
        ELSE IF n \in kept THEN Append(Pick[n - 1], subtitles[n]) ELSE Pick[n - 1]
  IN  Pick[Len(subtitles)]

\* array.splice(index, 0, item) on a copy: item put in front of the element at
\* the 0-based index, or at the end if the list is shorter.
InsertAt(subtitles, index, item) ==
  LET at == Min(index, Len(subtitles))
  IN  SubSeq(subtitles, 1, at) \o <<item>> \o SubSeq(subtitles, at + 1, Len(subtitles))

\* Lines 297-317, for 0-based indices that are not negative.
mergeSubtitles(subtitles, index1, index2) ==
  IF index1 >= Len(subtitles) \/ index2 >= Len(subtitles) THEN subtitles
  ELSE LET sub1 == subtitles[Min(index1, index2) + 1]
           sub2 == subtitles[Max(index1, index2) + 1]
           merged == [id |-> sub1.id,
                      startTime |-> Min(sub1.startTime, sub2.startTime),
                      endTime |-> Max(sub1.endTime, sub2.endTime),
                      text |-> sub1.text \o <<32>> \o sub2.text]
           newSubtitles == Without(subtitles, {index1 + 1, index2 + 1})
       IN  Renumbered(InsertAt(newSubtitles, Min(index1, index2), merged))

\* A split that gives the first cue the larger half of the words.
splitSubtitle_CeilMidpoint(subtitles, index, splitTime) ==
  IF index >= Len(subtitles) THEN subtitles
  ELSE LET original == subtitles[index + 1]
       IN  IF splitTime <= original.startTime \/ splitTime >= original.endTime
           THEN subtitles
           ELSE LET words == SplitAt(original.text, 32)
                    midPoint == (Len(words) + 1) \div 2
                    sub1 == [id |-> original.id,
                             startTime |-> original.startTime,
                             endTime |-> splitTime,
                             text |-> Join(SubSeq(words, 1, midPoint), <<32>>)]
                    sub2 == [id |-> original.id + 1,
                             startTime |-> splitTime,
                             endTime |-> original.endTime,
                             text |-> Join(SubSeq(words, midPoint + 1, Len(words)), <<32>>)]
                IN  Renumbered(SubSeq(subtitles, 1, index) \o <<sub1, sub2>>
                                 \o SubSeq(subtitles, index + 2, Len(subtitles)))

\* Lines 322-355, for a 0-based index that is not negative.
splitSubtitle(subtitles, index, splitTime) ==
  IF index >= Len(subtitles) THEN subtitles
  ELSE LET original == subtitles[index + 1]
       IN  IF splitTime <= original.startTime \/ splitTime >= original.endTime
           THEN subtitles
           ELSE LET words == SplitAt(original.text, 32)
                    midPoint == Len(words) \div 2
                    sub1 == [id |-> original.id,
                             startTime |-> original.startTime,
                             endTime |-> splitTime,
                             text |-> Join(SubSeq(words, 1, midPoint), <<32>>)]
                    sub2 == [id |-> original.id + 1,
                             startTime |-> splitTime,
                             endTime |-> original.endTime,
                             text |-> Join(SubSeq(words, midPoint + 1, Len(words)), <<32>>)]
                IN  Renumbered(SubSeq(subtitles, 1, index) \o <<sub1, sub2>>
                                 \o SubSeq(subtitles, index + 2, Len(subtitles)))

\* controllers/subtitleController.ts, lines 94-96: the list deleteSubtitle
\* stores.
deleteSubtitle(subtitles, subtitleId) ==
  SelectSeq(subtitles, LAMBDA sub : sub.id # subtitleId)

\* SubtitleEditor.handleDelete: the list handed to onChange.
handleDelete(subtitles, id) ==
  Renumbered(SelectSeq(subtitles, LAMBDA sub : sub.id # id))

\* SubtitleEditor.handleAdd: the list handed to onChange (3 s are 30000 ticks).
handleAdd(subtitles, currentTime) ==
  LET from == IF subtitles # <<>> THEN subtitles[Len(subtitles)].endTime ELSE currentTime
  IN  Append(subtitles,
             [id |-> Len(subtitles) + 1, startTime |-> from,
              endTime |-> from + 30000, text |-> <<>>])

\* Lines 72-78: every cue is copied with its text as originalText and the
\* Cyrillic form of its text as text.
convertToCyrillic(subtitles) ==
  [i \in 1..Len(subtitles) |->
    [id |-> subtitles[i].id,
     startTime |-> subtitles[i].startTime,
     endTime |-> subtitles[i].endTime,
     text |-> ensureCyrillic(subtitles[i].text),
     originalText |-> subtitles[i].text]]

(***************************************************************************)
(* utils/srtParser.ts: the format codec.                                   *)
(***************************************************************************)
\* JavaScript's % : the remainder has the sign of the dividend.
JsRem(a, m) == IF a >= 0 THEN a % m ELSE -((-a) % m)

\* Number.prototype.toString for an integer: its decimal digits, "-" first if
\* it is negative ("0" is 48, "-" is 45).
RECURSIVE DigitsOf(_)
DigitsOf(n) ==
  IF n < 10 THEN <<48 + n>> ELSE Append(DigitsOf(n \div 10), 48 + (n % 10))

NumberToString(n) == IF n < 0 THEN <<45>> \o DigitsOf(-n) ELSE DigitsOf(n)

\* str.padStart(width, '0')
PadStart(str, width) ==
  [i \in 1..(width - Len(str)) |-> 48] \o str

\* Lines 21-28, on ticks: 36000000 ticks are an hour, 600000 a minute, 10000 a
\* second; Math.round((totalSeconds % 1) * 1000) rounds the ticks within the
\* second to milliseconds, a half upwards.
secondsToSrtTime(totalSeconds) ==
  LET hours == totalSeconds \div 36000000
      minutes == JsRem(totalSeconds, 36000000) \div 600000
      seconds == JsRem(totalSeconds, 600000) \div 10000
      milliseconds == (JsRem(totalSeconds, 10000) + 5) \div 10
  IN  PadStart(NumberToString(hours), 2) \o <<58>> \o PadStart(NumberToString(minutes), 2) \o <<58>>
        \o PadStart(NumberToString(seconds), 2) \o <<44>> \o PadStart(NumberToString(milliseconds), 3)

IsDigit(c) == c \in 48..57

\* Whether (\d{2}:\d{2}:\d{2}[,.]\d{3}) matches at position p of str.
TimecodeAt(str, p) ==
  /\ p >= 1
  /\ p + 11 <= Len(str)
  /\ \A k \in {0, 1, 3, 4, 6, 7, 9, 10, 11} : IsDigit(str[p + k])
  /\ str[p + 2] = 58
  /\ str[p + 5] = 58
  /\ str[p + 8] \in {44, 46}

TwoDigits(str, p) == (str[p] - 48) * 10 + (str[p + 1] - 48)

\* Lines 6-16: the first place the pattern matches is read; 0 if there is none.
srtTimeToSeconds(srtTime) ==
  LET places == {p \in 1..Len(srtTime) : TimecodeAt(srtTime, p)}
  IN  IF places = {} THEN 0
      ELSE LET p == CHOOSE q \in places : \A r \in places : q <= r
               hours == TwoDigits(srtTime, p)
               minutes == TwoDigits(srtTime, p + 3)
               seconds == TwoDigits(srtTime, p + 6)
               milliseconds == (srtTime[p + 9] - 48) * 100 + TwoDigits(srtTime, p + 10)
           IN  (hours * 3600 + minutes * 60 + seconds) * 10000 + milliseconds * 10

\* id || index + 1
IdOrIndex(subtitle, index) == IF subtitle.id # 0 THEN subtitle.id ELSE index

\* " --> "
Arrow == <<32, 45, 45, 62, 32>>

\* Lines 61-70.
generateSRT(subtitles) ==
  Join([index \in 1..Len(subtitles) |->
          NumberToString(IdOrIndex(subtitles[index], index)) \o <<10>>
            \o secondsToSrtTime(subtitles[index].startTime) \o Arrow
            \o secondsToSrtTime(subtitles[index].endTime) \o <<10>>
            \o subtitles[index].text],
       <<10, 10>>) \o <<10>>

\* str.replace(',', '.'): the first comma only.
ReplaceFirstComma(str) ==
  LET commas == {i \in 1..Len(str) : str[i] = 44}
  IN  IF commas = {} THEN str
      ELSE [str EXCEPT ![CHOOSE i \in commas : \A j \in commas : i <= j] = 46]

\* Lines 75-86; the header is "WEBVTT\n\n".
generateVTT(subtitles) ==
  <<87, 69, 66, 86, 84, 84, 10, 10>>
    \o Join([index \in 1..Len(subtitles) |->
               ReplaceFirstComma(secondsToSrtTime(subtitles[index].startTime)) \o Arrow
                 \o ReplaceFirstComma(secondsToSrtTime(subtitles[index].endTime)) \o <<10>>
                 \o subtitles[index].text],
            <<10, 10>>)
    \o <<10>>

\* srtContent.replace(/\r\n/g, '\n').replace(/\r/g, '\n')
RECURSIVE NormalizeLineEnds(_)
NormalizeLineEnds(str) ==
  LET returns == {i \in 1..Len(str) : str[i] = 13}
  IN  IF returns = {} THEN str
      ELSE LET r == CHOOSE i \in returns : \A j \in returns : i <= j
               next == IF r < Len(str) /\ str[r + 1] = 10 THEN r + 2 ELSE r + 1
           IN  SubSeq(str, 1, r - 1) \o <<10>> \o NormalizeLineEnds(From(str, next))

\* The first position at or after p whose code unit is not in S; Len(str) + 1
\* if there is none.
SkipAll(str, p, S) ==
  LET stops == {i \in p..Len(str) : str[i] \notin S}
  IN  IF stops = {} THEN Len(str) + 1
      ELSE CHOOSE i \in stops : \A j \in stops : i <= j

\* normalized.split(/\n\n+/)
RECURSIVE SplitBlocks(_)
SplitBlocks(str) ==
  LET gaps == {i \in 1..(Len(str) - 1) : str[i] = 10 /\ str[i + 1] = 10}
  IN  IF gaps = {} THEN <<str>>
      ELSE LET g == CHOOSE i \in gaps : \A j \in gaps : i <= j
           IN  <<SubSeq(str, 1, g - 1)>> \o SplitBlocks(From(str, SkipAll(str, g, {10})))

\* array.filter(s => s.trim())
NonBlank(strs) == SelectSeq(strs, LAMBDA x : Trim(x) # <<>>)

\* parseInt(str, 10): white space is skipped, then a sign and digits are read.
\* The result is <<n>> for the number n and <<>> for NaN (no digit there).
ParseInt(str) ==
  LET body == TrimStart(str)
      signed == body # <<>> /\ body[1] \in {43, 45}
      first == IF signed THEN 2 ELSE 1
      end == SkipAll(body, first, 48..57)
      Value[i \in (first - 1)..Len(body)] ==
        IF i < first THEN 0 ELSE Value[i - 1] * 10 + (body[i] - 48)
  IN  IF end = first THEN <<>>
      ELSE IF signed /\ body[1] = 45 THEN <<-Value[end - 1]>> ELSE <<Value[end - 1]>>

\* Whether the pattern of line 45 matches at position p of line: a timecode,
\* white space, "-->", white space, a timecode.
ArrowMatchAt(line, p) ==
  /\ TimecodeAt(line, p)
  /\ LET a == SkipAll(line, p + 12, WhiteSpace)
     IN  /\ a + 2 <= Len(line)
         /\ line[a] = 45 /\ line[a + 1] = 45 /\ line[a + 2] = 62
         /\ TimecodeAt(line, SkipAll(line, a + 3, WhiteSpace))

\* The body of the for loop of lines 38-53 for one block: the cue pushed, as a
\* list of one, or the empty list when the block is skipped.
ParseBlock(block) ==
  LET lines == NonBlank(LinesOf(block))
  IN  IF Len(lines) < 3 THEN <<>>
      ELSE IF ParseInt(lines[1]) = <<>> THEN <<>>
      ELSE LET places == {p \in 1..Len(lines[2]) : ArrowMatchAt(lines[2], p)}
           IN  IF places = {} THEN <<>>
               ELSE LET p == CHOOSE q \in places : \A r \in places : q <= r
                        a == SkipAll(lines[2], p + 12, WhiteSpace)
                        q == SkipAll(lines[2], a + 3, WhiteSpace)
                    IN  << [id |-> ParseInt(lines[1])[1],
                            startTime |-> srtTimeToSeconds(SubSeq(lines[2], p, p + 11)),
                            endTime |-> srtTimeToSeconds(SubSeq(lines[2], q, q + 11)),
                            text |-> Join(SubSeq(lines, 3, Len(lines)), <<10>>)] >>

\* A parser that gives up at the first block it cannot read.
parseSRT_StopsAtMalformed(srtContent) ==
  LET blocks == NonBlank(SplitBlocks(NormalizeLineEnds(srtContent)))
      bad == {b \in 1..Len(blocks) : ParseBlock(blocks[b]) = <<>>}
      last == IF bad = {} THEN Len(blocks)
              ELSE (CHOOSE b \in bad : \A c \in bad : b <= c) - 1
  IN  Flatten([b \in 1..last |-> ParseBlock(blocks[b])])

\* Lines 33-56.
parseSRT(srtContent) ==
  LET blocks == NonBlank(SplitBlocks(NormalizeLineEnds(srtContent)))
  IN  Flatten([b \in 1..Len(blocks) |-> ParseBlock(blocks[b])])

(***************************************************************************)
(* The formatter's callers: a cue list and a layout are chosen, then        *)
(* optimizeSubtitles or optimizeForAspectRatio is called once.              *)
(***************************************************************************)
MaxTextLen == 5
MaxBudget == 4
MaxLineBudget == 3
MaxCues == 2
MaxWords == 6

\* No call to the script mapper is under way.
ScriptIdle ==
  /\ tText = <<>>
  /\ tOps = <<>>
  /\ tVals = <<>>

Cue(id, startTime, endTime, text) ==
  [id |-> id, startTime |-> startTime, endTime |-> endTime, text |-> text]

OptimizeSubtitlesReq(maxCharsPerLine, maxLines) ==
  [fn |-> "optimizeSubtitles", aspectRatio |-> "",
   maxCharsPerLine |-> maxCharsPerLine, maxLines |-> maxLines]

OptimizeForAspectRatioReq(aspectRatio) ==
  [fn |-> "optimizeForAspectRatio", aspectRatio |-> aspectRatio,
   maxCharsPerLine |-> 0, maxLines |-> 0]

\* A word of n letters "a", and the words of the given lengths with one space
\* between them.
Word(n) == [i \in 1..n |-> 97]
TextOfWords(lens) == Join([i \in 1..Len(lens) |-> Word(lens[i])], <<32>>)

\* Every short text over "a", the space and the line feed, in the window
\* 0 s - 3 s, under every small layout, the non-positive ones included.
ShortTexts == SeqsUpTo({97, 32, 10}, MaxTextLen)

FormatInputs ==
  { << <<Cue(1, 0, 30000, t)>>, OptimizeSubtitlesReq(c, l) >> :
      t \in ShortTexts, c \in (-1)..MaxBudget, l \in (-1)..MaxLineBudget }

\* Cue lists over a few windows <<start, end>>: 0 s - 0.3 s, 0.3 s - 0.6 s,
\* 0.3 s - 2 s, 0.6 s - 2 s, 2 s - 9 s, 0 s - 9 s, 5 s - 5.2 s,
\* 1.0004 s - 3.0004 s, 0 s - 12 s, and the malformed
\* -2 s - -2 s, 0 s - -2 s and 2 s - 0 s; the text "a a" is one cue under the
\* layout of transcribeVideo (40, 2) and two under (1, 1).
CueWindows ==
  { <<0, 3000>>, <<3000, 6000>>, <<3000, 20000>>, <<6000, 20000>>,
    <<20000, 90000>>, <<0, 90000>>, <<50000, 52000>>, <<10004, 30004>>,
    <<0, 120000>>,
    <<-20000, -20000>>, <<0, -20000>>, <<20000, 0>> }

RECURSIVE CueListsOf(_)
CueListsOf(n) ==
  IF n = 0 THEN {<<>>}
  ELSE {Append(l, Cue(n, w[1], w[2], <<97, 32, 97>>)) :
          l \in CueListsOf(n - 1), w \in CueWindows}

TimingInputs ==
  { <<l, r>> : l \in UNION {CueListsOf(n) : n \in 0..MaxCues},
               r \in {OptimizeSubtitlesReq(40, 2), OptimizeSubtitlesReq(1, 1)} }

\* Texts that wrap under the layouts of the aspect ratios, for every tag and
\* one tag outside the tables.
LongTexts ==
  { TextOfWords(<<20, 21>>), TextOfWords(<<17, 17>>), TextOfWords(<<40, 1, 41>>),
    TextOfWords(<<20, 20, 20, 20, 20>>) }

RatioInputs ==
  { << <<Cue(1, 0, 30000, t)>>, OptimizeForAspectRatioReq(a) >> :
      t \in LongTexts, a \in AspectRatios \cup {"4:3"} }

\* "Dobrodo\u0161li u aplikaciju za titlovanje." in the window 0 s - 3 s
\* under the layout (50, 2).
Dobrodosli ==
  <<68, 111, 98, 114, 111, 100, 111, 353, 108, 105, 32, 117, 32,
    97, 112, 108, 105, 107, 97, 99, 105, 106, 117, 32, 122, 97, 32,
    116, 105, 116, 108, 111, 118, 97, 110, 106, 101, 46>>

ExampleInputs ==
  { << <<Cue(1, 0, 30000, Dobrodosli)>>, OptimizeSubtitlesReq(50, 2) >> }

\* Texts whose words differ, "a b c d e" and "ab" over "cd e", in the window
\* 0 s - 3 s under every small positive layout.
OrderInputs ==
  { << <<Cue(1, 0, 30000, t)>>, OptimizeSubtitlesReq(c, l) >> :
      t \in { <<97, 32, 98, 32, 99, 32, 100, 32, 101>>,
              <<97, 98, 10, 99, 100, 32, 101>> },
      c \in 1..MaxBudget, l \in 1..MaxLineBudget }

OptimizeInputs ==
  FormatInputs \cup TimingInputs \cup RatioInputs \cup ExampleInputs \cup OrderInputs

\* Texts of exactly 90 code units: at most MaxWords words of 1, 6, 19, 20, 21,
\* 39 or 40 letters with one space between them.
RECURSIVE WordLengthsFor(_, _)
WordLengthsFor(total, maxWords) ==
  (IF total \in {1, 6, 19, 20, 21, 39, 40} THEN {<<total>>} ELSE {})
    \cup (IF maxWords <= 1 THEN {}
          ELSE UNION { {<<w>> \o rest : rest \in WordLengthsFor(total - w - 1, maxWords - 1)} :
                       w \in {v \in {1, 6, 19, 20, 21, 39, 40} : total - v - 1 > 0} })

NinetyCharTexts == {TextOfWords(lens) : lens \in WordLengthsFor(90, MaxWords)}

\* The 90-character texts under the layout (40, 2), as transcribeVideo passes
\* it and as the tag "9:16" gives it.
NinetyInputs ==
  { << <<Cue(1, 0, 30000, t)>>, r >> :
      t \in NinetyCharTexts,
      r \in {OptimizeSubtitlesReq(40, 2), OptimizeForAspectRatioReq("9:16")} }

LayoutChars ==
  IF oReq.fn = "optimizeForAspectRatio" THEN getMaxCharsForRatio(oReq.aspectRatio)
  ELSE oReq.maxCharsPerLine

LayoutLines ==
  IF oReq.fn = "optimizeForAspectRatio" THEN getMaxLinesForRatio(oReq.aspectRatio)
  ELSE oReq.maxLines

InitOptimize ==
  /\ ScriptIdle
  /\ CodecIdle
  /\ RestIdle
  /\ \E in \in OptimizeInputs : oSubs = in[1] /\ oReq = in[2]
  /\ oPc = "called"
  /\ oOut = <<>>
  /\ oError = "none"

InitNinety ==
  /\ ScriptIdle
  /\ CodecIdle
  /\ RestIdle
  /\ \E in \in NinetyInputs : oSubs = in[1] /\ oReq = in[2]
  /\ oPc = "called"
  /\ oOut = <<>>
  /\ oError = "none"

\* The method has no throw statement and no operation that throws on a list
\* of cues: it always returns.
OptimizeSubtitlesCall ==
  /\ oPc = "called"
  /\ oReq.fn = "optimizeSubtitles"
  /\ oOut' = optimizeSubtitles(oSubs, oReq.maxCharsPerLine, oReq.maxLines)
  /\ oError' = "none"
  /\ oPc' = "done"
  /\ UNCHANGED <<oSubs, oReq, tvars, cvars, rvars>>

OptimizeForAspectRatioCall ==
  /\ oPc = "called"
  /\ oReq.fn = "optimizeForAspectRatio"
  /\ oOut' = optimizeForAspectRatio(oSubs, oReq.aspectRatio)
  /\ oError' = "none"
  /\ oPc' = "done"
  /\ UNCHANGED <<oSubs, oReq, tvars, cvars, rvars>>

NextOptimize ==
  \/ OptimizeSubtitlesCall
  \/ OptimizeForAspectRatioCall

SpecOptimize == InitOptimize /\ [][NextOptimize]_vars

SpecNinety == InitNinety /\ [][NextOptimize]_vars

(***************************************************************************)
(* The codec's callers: a cue list is serialized by generateSRT or          *)
(* generateVTT and the text is given to parseSRT, the one parser there is.  *)
(***************************************************************************)
\* The windows 0 s - 1.5 s, 1.5 s - 59.9995 s, 59.9995 s - 61.25 s and
\* 61.25 s - 1 h 0.5 s, as <<start, end>>.
CodecWindows ==
  { <<0, 15000>>, <<15000, 599995>>, <<599995, 612500>>, <<612500, 36005000>> }

\* "a", "a" and "b" on two lines, "1" (a digit), and the empty text
CodecTexts == {<<97>>, <<97, 10, 98>>, <<49>>, <<>>}

RECURSIVE CodecCueLists(_)
CodecCueLists(n) ==
  IF n = 0 THEN {<<>>}
  ELSE {Append(l, Cue(n, w[1], w[2], t)) :
          l \in CodecCueLists(n - 1), w \in CodecWindows, t \in CodecTexts}

InitCodec ==
  /\ ScriptIdle
  /\ FormatterIdle
  /\ RestIdle
  /\ cCues \in UNION {CodecCueLists(n) : n \in 0..MaxCues}
  /\ cFormat \in {"srt", "vtt"}
  /\ cPc = "start"
  /\ cFile = <<>>
  /\ cParsed = <<>>

GenerateSRTCall ==
  /\ cPc = "start"
  /\ cFormat = "srt"
  /\ cFile' = generateSRT(cCues)
  /\ cPc' = "generated"
  /\ UNCHANGED <<cCues, cFormat, cParsed, tvars, ovars, rvars>>

GenerateVTTCall ==
  /\ cPc = "start"
  /\ cFormat = "vtt"
  /\ cFile' = generateVTT(cCues)
  /\ cPc' = "generated"
  /\ UNCHANGED <<cCues, cFormat, cParsed, tvars, ovars, rvars>>

ParseSRTCall ==
  /\ cPc = "generated"
  /\ cParsed' = parseSRT(cFile)
  /\ cPc' = "parsed"
  /\ UNCHANGED <<cCues, cFormat, cFile, tvars, ovars, rvars>>

NextCodec ==
  \/ GenerateSRTCall
  \/ GenerateVTTCall
  \/ ParseSRTCall

SpecCodec == InitCodec /\ [][NextCodec]_vars

(***************************************************************************)
(* The timecode functions on their own: a time is chosen, written by      *)
(* secondsToSrtTime and read back by srtTimeToSeconds.                     *)
(***************************************************************************)
MaxTimeTicks == 12000

\* Every time from 0 s to 1.2 s in steps of 0.1 ms, and times next to the
\* turn of a minute, of an hour, of ten hours and of fifty hours.
TimecodeInputs ==
  (0..MaxTimeTicks)
    \cup {599994, 599996, 600000, 612500, 35999996, 36000000, 36005000,
          359999990, 359999996, 1799999990, 1799999996}

InitTimecode ==
  /\ ScriptIdle
  /\ NewerIdle
  /\ FormatterIdle
  /\ CodecIdle
  /\ FileIdle
  /\ TranscriptionIdle
  /\ ProjectIdle
  /\ kT \in TimecodeInputs
  /\ kPc = "start"
  /\ kCode = <<>>
  /\ kBack = 0

SecondsToSrtTimeCall ==
  /\ kPc = "start"
  /\ kCode' = secondsToSrtTime(kT)
  /\ kPc' = "formatted"
  /\ UNCHANGED <<kT, kBack, fBlocks, vvars, jvars, nvars, tvars, ovars, cvars>>

SrtTimeToSecondsCall ==
  /\ kPc = "formatted"
  /\ kBack' = srtTimeToSeconds(kCode)
  /\ kPc' = "read"
  /\ UNCHANGED <<kT, kCode, fBlocks, vvars, jvars, nvars, tvars, ovars, cvars>>

NextTimecode ==
  \/ SecondsToSrtTimeCall
  \/ SrtTimeToSecondsCall

SpecTimecode == InitTimecode /\ [][NextTimecode]_vars

(***************************************************************************)
(* parseSRT on files a user uploads: a file is written from a few blocks,  *)
(* well formed or not, with blank lines between them, and parsed.          *)
(***************************************************************************)
MaxBlocks == 3

\* "00:00:01,000 --> 00:00:02,500" and "00:01:00.000 --> 00:01:01.000"
ArrowLine1 ==
  <<48, 48, 58, 48, 48, 58, 48, 49, 44, 48, 48, 48>> \o Arrow
    \o <<48, 48, 58, 48, 48, 58, 48, 50, 44, 53, 48, 48>>
ArrowLine2 ==
  <<48, 48, 58, 48, 49, 58, 48, 48, 46, 48, 48, 48>> \o Arrow
    \o <<48, 48, 58, 48, 49, 58, 48, 49, 46, 48, 48, 48>>

BlockKinds ==
  {"cue", "cueTwoLines", "twoLines", "oneLine", "wordIndex", "noMillis",
   "noArrow", "digitsThenLetter"}

\* The text of a block of each kind.
BlockText(kind) ==
  CASE kind = "cue" ->           \* 1 / timecodes / a
         <<49, 10>> \o ArrowLine1 \o <<10, 97>>
    [] kind = "cueTwoLines" ->   \* 7 / timecodes / b / c, lines ended by CR LF
         <<55, 13, 10>> \o ArrowLine2 \o <<13, 10, 98, 13, 10, 99>>
    [] kind = "twoLines" ->      \* 1 / timecodes
         <<49, 10>> \o ArrowLine1
    [] kind = "oneLine" ->       \* x
         <<120>>
    [] kind = "wordIndex" ->     \* x / timecodes / a
         <<120, 10>> \o ArrowLine1 \o <<10, 97>>
    [] kind = "noMillis" ->      \* 3 / 00:00:01 --> 00:00:02 / a
         <<51, 10>> \o <<48, 48, 58, 48, 48, 58, 48, 49>> \o Arrow
           \o <<48, 48, 58, 48, 48, 58, 48, 50>> \o <<10, 97>>
    [] kind = "noArrow" ->       \* 3 / 00:00:01,000 00:00:02,500 / a
         <<51, 10>> \o SubSeq(ArrowLine1, 1, 12) \o <<32>>
           \o SubSeq(ArrowLine1, 18, 29) \o <<10, 97>>
    [] kind = "digitsThenLetter" -> \* 2x / timecodes / a
         <<50, 120, 10>> \o ArrowLine1 \o <<10, 97>>

\* The blank lines between two blocks: LF LF, LF LF LF, or CR LF CR LF.
BlockGaps == {<<10, 10>>, <<10, 10, 10>>, <<13, 10, 13, 10>>}

RECURSIVE BlockListsOf(_)
BlockListsOf(n) ==
  IF n = 0 THEN {<<>>}
  ELSE {Append(l, k) : l \in BlockListsOf(n - 1), k \in BlockKinds}

InitParse ==
  /\ ScriptIdle
  /\ NewerIdle
  /\ FormatterIdle
  /\ TimecodeIdle
  /\ TranscriptionIdle
  /\ ProjectIdle
  /\ fBlocks \in UNION {BlockListsOf(n) : n \in 0..MaxBlocks}
  /\ \E gap \in BlockGaps, tail \in {<<>>, <<10>>} :
       cFile = Join([i \in 1..Len(fBlocks) |-> BlockText(fBlocks[i])], gap) \o tail
  /\ cCues = <<>>
  /\ cFormat = "file"
  /\ cPc = "generated"
  /\ cParsed = <<>>

SpecParse == InitParse /\ [][ParseSRTCall]_vars

(***************************************************************************)
(* The entry points on empty input: optimizeSubtitles, its aspect-ratio    *)
(* form and convertToCyrillic are called with no cue, parseSRT with a file *)
(* of white space.                                                         *)
(***************************************************************************)
MaxBlankLen == 3

ConvertToCyrillicReq ==
  [fn |-> "convertToCyrillic", aspectRatio |-> "",
   maxCharsPerLine |-> 0, maxLines |-> 0]

\* Space, tab, line feed and carriage return.
BlankTexts == SeqsUpTo({32, 9, 10, 13}, MaxBlankLen)

EmptyListRequests ==
  {OptimizeSubtitlesReq(c, l) : c \in (-1)..MaxBudget, l \in (-1)..MaxLineBudget}
    \cup {OptimizeForAspectRatioReq(a) : a \in AspectRatios \cup {"4:3"}}
    \cup {ConvertToCyrillicReq}

InitEmpty ==
  /\ ScriptIdle
  /\ RestIdle
  /\ oSubs = <<>>
  /\ oReq \in EmptyListRequests
  /\ oPc = "called"
  /\ oOut = <<>>
  /\ oError = "none"
  /\ cCues = <<>>
  /\ cFormat = "file"
  /\ cPc = "generated"
  /\ cFile \in BlankTexts
  /\ cParsed = <<>>

\* convertToCyrillic has no throw statement and maps over the list: it always
\* returns.
ConvertToCyrillicCall ==
  /\ oPc = "called"
  /\ oReq.fn = "convertToCyrillic"
  /\ oOut' = convertToCyrillic(oSubs)
  /\ oError' = "none"
  /\ oPc' = "done"
  /\ UNCHANGED <<oSubs, oReq, tvars, cvars, rvars>>

NextEmpty ==
  \/ OptimizeSubtitlesCall
  \/ OptimizeForAspectRatioCall
  \/ ConvertToCyrillicCall
  \/ ParseSRTCall

SpecEmpty == InitEmpty /\ [][NextEmpty]_vars

(***************************************************************************)
(* controllers/videoController.ts, transcribeVideo: the segments of the    *)
(* recognition service become the cue list of the project.                 *)
(***************************************************************************)
\* Lines 162-173: the segments are mapped to cues (transliterated if the flag
\* is set, the transcribed text kept as originalText), then passed through
\* optimizeSubtitles(subtitles, 40, 2) and convertToCyrillic.
transcribeVideo(segments, convert) ==
  LET subtitles == [index \in 1..Len(segments) |->
                      [id |-> index,
                       startTime |-> segments[index].start,
                       endTime |-> segments[index].end,
                       text |-> IF convert THEN latinToCyrillic(segments[index].text)
                                ELSE segments[index].text,
                       originalText |-> segments[index].text]]
  IN  convertToCyrillic(optimizeSubtitles(subtitles, 40, 2))

MaxSegments == 2

\* The windows 0 s - 2 s, 2 s - 4 s and 5 s - 9 s.
SegmentWindows == {<<0, 20000>>, <<20000, 40000>>, <<50000, 90000>>}

\* "a", "nj a", "q" (a letter outside the table), "Njegova kuća", and
\* the letter U+0448 (already Cyrillic).
SegmentTexts == {<<97>>, <<110, 106, 32, 97>>, <<113>>, Njegova, <<1096>>}

RECURSIVE SegmentListsOf(_)
SegmentListsOf(n) ==
  IF n = 0 THEN {<<>>}
  ELSE {Append(l, [start |-> w[1], end |-> w[2], text |-> t]) :
          l \in SegmentListsOf(n - 1), w \in SegmentWindows, t \in SegmentTexts}

InitTranscribe ==
  /\ ScriptIdle
  /\ NewerIdle
  /\ FormatterIdle
  /\ CodecIdle
  /\ TimecodeIdle
  /\ FileIdle
  /\ ProjectIdle
  /\ vSegs \in UNION {SegmentListsOf(n) : n \in 0..MaxSegments}
  /\ vConvert \in BOOLEAN
  /\ vPc = "called"
  /\ vSubs = <<>>

TranscribeVideoCall ==
  /\ vPc = "called"
  /\ vSubs' = transcribeVideo(vSegs, vConvert)
  /\ vPc' = "done"
  /\ UNCHANGED <<vSegs, vConvert, kvars, fBlocks, jvars, nvars, tvars, ovars, cvars>>

SpecTranscribe == InitTranscribe /\ [][TranscribeVideoCall]_vars

(***************************************************************************)
(* The cue list of a project under the operations that produce or edit it: *)
(* optimizeSubtitles, mergeSubtitles and splitSubtitle of the service,     *)
(* deleteSubtitle of the server, and handleAdd and handleDelete of the     *)
(* client editor.                                                          *)
(***************************************************************************)
MaxProjectCues == 3
MaxSteps == 3

\* One cue "a a" from 0 s to 3 s, and that cue followed by "a" from 3 s to 6 s.
ProjectInputs ==
  { <<Cue(1, 0, 30000, <<97, 32, 97>>)>>,
    <<Cue(1, 0, 30000, <<97, 32, 97>>), Cue(2, 30000, 60000, <<97>>)>> }

\* The times at which the editor splits a cue: 1 s, 2 s and 4 s.
SplitTimes == {10000, 20000, 40000}

InitProject ==
  /\ ScriptIdle
  /\ NewerIdle
  /\ FormatterIdle
  /\ CodecIdle
  /\ TimecodeIdle
  /\ FileIdle
  /\ TranscriptionIdle
  /\ jSubs = <<>>
  /\ jSteps = 0

\* The list becomes next if it is within the bound on its length.
ProjectStep(next) ==
  /\ jSteps < MaxSteps
  /\ Len(next) <= MaxProjectCues
  /\ jSubs' = next
  /\ jSteps' = jSteps + 1
  /\ UNCHANGED <<kvars, fBlocks, vvars, nvars, tvars, ovars, cvars>>

ProjectOptimizeCall ==
  \E in \in ProjectInputs \cup {jSubs}, layout \in {<<40, 2>>, <<1, 1>>} :
    ProjectStep(optimizeSubtitles(in, layout[1], layout[2]))

MergeSubtitlesCall ==
  \E index1 \in 0..MaxProjectCues, index2 \in 0..MaxProjectCues :
    ProjectStep(mergeSubtitles(jSubs, index1, index2))

SplitSubtitleCall ==
  \E index \in 0..MaxProjectCues, splitTime \in SplitTimes :
    ProjectStep(splitSubtitle(jSubs, index, splitTime))

DeleteSubtitleCall ==
  \E subtitleId \in 1..(MaxProjectCues + 1) :
    ProjectStep(deleteSubtitle(jSubs, subtitleId))

HandleDeleteCall ==
  \E id \in 1..(MaxProjectCues + 1) :
    ProjectStep(handleDelete(jSubs, id))

HandleAddCall ==
  ProjectStep(handleAdd(jSubs, 0))

NextProject ==
  \/ ProjectOptimizeCall
  \/ MergeSubtitlesCall
  \/ SplitSubtitleCall
  \/ DeleteSubtitleCall
  \/ HandleDeleteCall
  \/ HandleAddCall

SpecProject == InitProject /\ [][NextProject]_vars

(***************************************************************************)
(* The stages as transforms: a stage is called on a cue list, and called   *)
(* again with the same arguments.  oSubs is the list object the caller     *)
(* passed, as it is in the caller's hands after each call.                 *)
(***************************************************************************)
MergeSubtitlesReq(index1, index2) ==
  [fn |-> "mergeSubtitles", index1 |-> index1, index2 |-> index2]

SplitSubtitleReq(index, splitTime) ==
  [fn |-> "splitSubtitle", index |-> index, splitTime |-> splitTime]

\* A stage that takes the cues out of the list it was passed (shift()).
PassedList_Emptied(subtitles) == SubSeq(subtitles, 1, 0)

\* The list a stage was passed, as the stage leaves it.  The stages only read
\* it: optimizeSubtitles pushes new objects to its own list (lines 107-125)
\* and adjustTiming, convertToCyrillic and the renumbering build copies with
\* map and a spread; mergeSubtitles splices the list filter returned (lines
\* 312-313), splitSubtitle a spread copy (lines 347-348).
PassedList(subtitles) == subtitles

\* Lists the editor splits: a cue of two lines ("a b" over "c d"); the cues
\* "a b c", "a" and "" with the ids 1, 3 and 4, as deleteSubtitle leaves them;
\* "a b c d e"; and "a  b" with two spaces.
SplitInputs ==
  { <<Cue(1, 0, 30000, <<97, 32, 98, 10, 99, 32, 100>>)>>,
    <<Cue(1, 0, 30000, <<97, 32, 98, 32, 99>>), Cue(3, 30000, 60000, <<97>>),
      Cue(4, 60000, 90000, <<>>)>>,
    <<Cue(1, 0, 30000, <<97, 32, 98, 32, 99, 32, 100, 32, 101>>)>>,
    <<Cue(1, 0, 30000, <<97, 32, 32, 98>>)>> }

PureInputs ==
  UNION {CueListsOf(n) : n \in 0..MaxCues} \cup SplitInputs

PureRequests ==
  {OptimizeSubtitlesReq(40, 2), OptimizeSubtitlesReq(1, 1), ConvertToCyrillicReq}
    \cup {MergeSubtitlesReq(i, j) : i \in 0..MaxCues, j \in 0..MaxCues}
    \cup {SplitSubtitleReq(i, t) : i \in 0..MaxCues, t \in SplitTimes}

InitPure ==
  /\ ScriptIdle
  /\ CodecIdle
  /\ RestIdle
  /\ oSubs \in PureInputs
  /\ oReq \in PureRequests
  /\ oPc = "called"
  /\ oOut = <<>>
  /\ oError = "none"

\* One call of a stage, the first or the second with the same arguments.
StageCall(result) ==
  /\ oPc \in {"called", "done"}
  /\ oOut' = result
  /\ oSubs' = PassedList(oSubs)
  /\ oPc' = IF oPc = "called" THEN "done" ELSE "again"
  /\ UNCHANGED <<oReq, oError, tvars, cvars, rvars>>

OptimizeSubtitlesStage ==
  /\ oReq.fn = "optimizeSubtitles"
  /\ StageCall(optimizeSubtitles(oSubs, oReq.maxCharsPerLine, oReq.maxLines))

ConvertToCyrillicStage ==
  /\ oReq.fn = "convertToCyrillic"
  /\ StageCall(convertToCyrillic(oSubs))

MergeSubtitlesStage ==
  /\ oReq.fn = "mergeSubtitles"
  /\ StageCall(mergeSubtitles(oSubs, oReq.index1, oReq.index2))

SplitSubtitleStage ==
  /\ oReq.fn = "splitSubtitle"
  /\ StageCall(splitSubtitle(oSubs, oReq.index, oReq.splitTime))

NextPure ==
  \/ OptimizeSubtitlesStage
  \/ ConvertToCyrillicStage
  \/ MergeSubtitlesStage
  \/ SplitSubtitleStage

SpecPure == InitPure /\ [][NextPure]_vars

(***************************************************************************)
(* controllers/videoController.ts: the in-memory project store under       *)
(* concurrent requests.  A handler runs without interruption up to its     *)
(* next await; transcribeVideo awaits the recognition service between the  *)
(* two halves of its body, and other requests are served in between.       *)
(***************************************************************************)
MaxProjects == 2
MaxCalls == 2

ProjectIds == 1..MaxProjects
CallIds == 1..MaxCalls

InitStore ==
  /\ ScriptIdle
  /\ FormatterIdle
  /\ CodecIdle
  /\ TimecodeIdle
  /\ FileIdle
  /\ TranscriptionIdle
  /\ ProjectIdle
  /\ SecondPassIdle
  /\ GateIdle
  /\ pStore = {}
  /\ pStatus = [id \in ProjectIds |-> "none"]
  /\ pCues = [id \in ProjectIds |-> "empty"]
  /\ pCalls = [c \in CallIds |-> [id |-> 0, pc |-> "free", answer |-> 0]]
  /\ pDeleted = {}

StoreRest ==
  <<tvars, ovars, cvars, kvars, fBlocks, vvars, jvars, oAgain, gvars>>

\* uploadVideo, lines 27-73: a project object with a fresh id (uuidv4), no
\* cues and the status 'uploaded' is put into the map.
UploadVideo(id) ==
  /\ pStatus[id] = "none"
  /\ pStore' = pStore \cup {id}
  /\ pStatus' = [pStatus EXCEPT ![id] = "uploaded"]
  /\ UNCHANGED <<pCues, pCalls, pDeleted, StoreRest>>

\* deleteVideo, lines 110-130, for a project that is in the map (otherwise it
\* answers 404 and changes nothing): the key is deleted and success answered.
\* There is no await in the handler.
DeleteVideo(id) ==
  /\ id \in pStore
  /\ pStore' = pStore \ {id}
  /\ pDeleted' = pDeleted \cup {id}
  /\ UNCHANGED <<pStatus, pCues, pCalls, StoreRest>>

\* transcribeVideo, lines 133-159, up to the await: 404 if the project is not
\* in the map; otherwise its status becomes 'transcribing' and the handler
\* waits for the recognition service, holding the project object.
TranscribeVideoBegins(c, id) ==
  /\ pCalls[c].pc = "free"
  /\ IF id \in pStore
     THEN /\ pStatus' = [pStatus EXCEPT ![id] = "transcribing"]
          /\ pCalls' = [pCalls EXCEPT ![c] = [id |-> id, pc |-> "awaiting", answer |-> 0]]
     ELSE /\ pStatus' = pStatus
          /\ pCalls' = [pCalls EXCEPT ![c] = [id |-> id, pc |-> "answered", answer |-> 404]]
  /\ UNCHANGED <<pStore, pCues, pDeleted, StoreRest>>

\* transcribeVideo, lines 162-186, after the recognition service returned:
\* the cues are stored in the project object, its status becomes
\* 'transcribed', and projects.set(id, project) puts the object into the map.
TranscribeVideoReturns(c) ==
  /\ pCalls[c].pc = "awaiting"
  /\ pCues' = [pCues EXCEPT ![pCalls[c].id] = "stored"]
  /\ pStatus' = [pStatus EXCEPT ![pCalls[c].id] = "transcribed"]
  /\ pStore' = pStore \cup {pCalls[c].id}
  /\ pCalls' = [pCalls EXCEPT ![c].pc = "answered", ![c].answer = 200]
  /\ UNCHANGED <<pDeleted, StoreRest>>

\* A catch block that answers 500 and leaves the status as it is.
TranscribeVideoThrows_StatusKept(c) ==
  /\ pCalls[c].pc = "awaiting"
  /\ pCalls' = [pCalls EXCEPT ![c].pc = "answered", ![c].answer = 500]
  /\ UNCHANGED <<pStatus, pStore, pCues, pDeleted, StoreRest>>

\* transcribeVideo, lines 187-195, after the recognition service threw: the
\* project is looked up again, and if it is in the map its status becomes
\* 'error'.
TranscribeVideoThrows(c) ==
  /\ pCalls[c].pc = "awaiting"
  /\ pStatus' = IF pCalls[c].id \in pStore
                THEN [pStatus EXCEPT ![pCalls[c].id] = "error"]
                ELSE pStatus
  /\ pCalls' = [pCalls EXCEPT ![c].pc = "answered", ![c].answer = 500]
  /\ UNCHANGED <<pStore, pCues, pDeleted, StoreRest>>

NextStore ==
  \/ \E id \in ProjectIds : UploadVideo(id)
  \/ \E id \in ProjectIds : DeleteVideo(id)
  \/ \E c \in CallIds, id \in ProjectIds : TranscribeVideoBegins(c, id)
  \/ \E c \in CallIds : TranscribeVideoReturns(c)
  \/ \E c \in CallIds : TranscribeVideoThrows(c)

SpecStore == InitStore /\ [][NextStore]_vars

\* The recognition call of every request returns or throws, and the event
\* loop then runs the rest of the handler.
SpecStoreLive ==
  /\ SpecStore
  /\ \A c \in CallIds : WF_vars(TranscribeVideoReturns(c) \/ TranscribeVideoThrows(c))

(***************************************************************************)
(* The app and its password gate (index.ts, middleware/auth.ts): a request *)
(* passes the layers of the app in the order they are mounted until one    *)
(* answers it.  A path is the sequence of its segments ("/api/videos/1" is *)
(* <<"api", "videos", "1">>); a password datum is "none" (absent), "wrong" *)
(* or "right" (equal to SITE_PASSWORD).                                    *)
(***************************************************************************)
GatePaths ==
  { <<"api", "auth", "login">>, <<"api", "auth", "check">>, <<"api", "health">>,
    <<"api", "videos">>, <<"api", "videos", "1">>, <<"api", "videos", "1", "transcribe">>,
    <<"api", "subtitles", "1">>, <<"api", "subtitles", "1", "download", "srt">>,
    <<"uploads", "v.mp4">>, <<"exports", "v.mp4">>, <<"uploads", "gone.mp4">>,
    <<"api", "api", "videos">>, <<"editor", "1">>, <<>> }

GateMethods == {"GET", "POST", "PUT", "DELETE"}

PasswordData == {"none", "wrong", "right"}

\* The files express.static finds in the uploads and exports folders.
StoredFiles == {<<"uploads", "v.mp4">>, <<"exports", "v.mp4">>}

InitGate ==
  /\ ScriptIdle
  /\ FormatterIdle
  /\ CodecIdle
  /\ TimecodeIdle
  /\ FileIdle
  /\ TranscriptionIdle
  /\ ProjectIdle
  /\ SecondPassIdle
  /\ StoreIdle
  /\ gReq \in [method : GateMethods, path : GatePaths, cookie : PasswordData,
               header : PasswordData, query : PasswordData]
  /\ gStage = "received"
  /\ gAnswer = "none"

GateRest ==
  <<tvars, ovars, cvars, kvars, fBlocks, vvars, jvars, oAgain, pvars>>

\* The layer answers the request, or passes it to the next layer.
Answered(by) ==
  /\ gStage' = "answered"
  /\ gAnswer' = by
  /\ UNCHANGED <<gReq, GateRest>>

PassedTo(layer) ==
  /\ gStage' = layer
  /\ UNCHANGED <<gReq, gAnswer, GateRest>>

\* index.ts, lines 47-54: the endpoints mounted before the gate.
OpenEndpoint(req) ==
  \/ req.method = "POST" /\ req.path \in {<<"api", "auth", "login">>, <<"api", "auth", "logout">>}
  \/ req.method = "GET" /\ req.path \in {<<"api", "auth", "check">>, <<"api", "health">>}

OpenRoutes ==
  /\ gStage = "received"
  /\ IF OpenEndpoint(gReq) THEN Answered("open") ELSE PassedTo("gate")

\* app.use(mount, fn): fn runs for the paths under the mount, and sees
\* req.path with the mount stripped ("/api/videos/1" is "/videos/1" there).
UnderMount(path, mount) == path # <<>> /\ path[1] = mount

MountedPath(path) == Tail(path)

\* path.startsWith('/' + first + '/')
StartsWith(path, first) == Len(path) >= 2 /\ path[1] = first

\* The value of req.path inside passwordAuth as it is mounted on lines 57-59.
GatePath(req) == MountedPath(req.path)

\* auth.ts, lines 62-91, for req.path = path: "next" or "401".
passwordAuth(path, req) ==
  LET providedPassword == IF req.header # "none" THEN req.header ELSE req.query
      cookiePassword == req.cookie
  IN  IF path = <<"api", "health">> THEN "next"
      ELSE IF cookiePassword = "right" \/ providedPassword = "right" THEN "next"
      ELSE IF \/ StartsWith(path, "api")
              \/ StartsWith(path, "uploads")
              \/ StartsWith(path, "exports")
           THEN "401"
           ELSE "next"

\* index.ts, lines 57-59.
PasswordAuthCall ==
  /\ gStage = "gate"
  /\ IF /\ \E mount \in {"api", "uploads", "exports"} : UnderMount(gReq.path, mount)
        /\ passwordAuth(GatePath(gReq), gReq) = "401"
     THEN Answered("401")
     ELSE PassedTo("static")

\* index.ts, lines 62-63: express.static serves a GET of a file it finds.
StaticFiles ==
  /\ gStage = "static"
  /\ IF gReq.method = "GET" /\ gReq.path \in StoredFiles
     THEN Answered("file")
     ELSE PassedTo("routes")

\* routes/videoRoutes.ts, lines 73-89, for the path below /api/videos.
VideoRoute(method, rest) ==
  \/ method = "POST" /\ rest = <<"upload">>
  \/ method = "GET" /\ Len(rest) <= 1
  \/ method = "DELETE" /\ Len(rest) = 1
  \/ method = "POST" /\ Len(rest) = 2 /\ rest[2] \in {"transcribe", "export"}

\* routes/subtitleRoutes.ts, lines 8-23, for the path below /api/subtitles.
SubtitleRoute(method, rest) ==
  \/ method = "GET" /\ Len(rest) = 1
  \/ method = "PUT" /\ Len(rest) \in {1, 2}
  \/ method = "DELETE" /\ Len(rest) = 2
  \/ method = "GET" /\ Len(rest) = 3 /\ rest[2] = "download" /\ rest[3] \in {"srt", "vtt"}

\* index.ts, lines 66-67.
ApiRoutes ==
  /\ gStage = "routes"
  /\ IF \/ /\ StartsWith(gReq.path, "api") /\ gReq.path[2] = "videos"
           /\ VideoRoute(gReq.method, Tail(Tail(gReq.path)))
        \/ /\ StartsWith(gReq.path, "api") /\ gReq.path[2] = "subtitles"
           /\ SubtitleRoute(gReq.method, Tail(Tail(gReq.path)))
     THEN Answered("route")
     ELSE PassedTo("rest")

\* index.ts, lines 69-76: the client build, or Express's 404.
ClientOrNotFound ==
  /\ gStage = "rest"
  /\ Answered("other")

NextGate ==
  \/ OpenRoutes
  \/ PasswordAuthCall
  \/ StaticFiles
  \/ ApiRoutes
  \/ ClientOrNotFound

SpecGate == InitGate /\ [][NextGate]_vars

(***************************************************************************)
(* Times as the program holds them.  A JavaScript number is an IEEE 754     *)
(* binary64 value: 53 significant bits, every result rounded to the nearest *)
(* such value, ties to the even one.  Here a magnitude is a natural         *)
(* multiple of 2^-70 written in six limbs of fifteen bits, least            *)
(* significant limb first; that is exact for 0 and for every binary64       *)
(* value from 2^-17 up to 2^20, which covers the times below.               *)
(***************************************************************************)
LimbBase == 32768
LimbBits == 15
LimbCount == 6
FractionBits == 70
SignificantBits == 53

RECURSIVE TwoToThe(_)
TwoToThe(n) == IF n = 0 THEN 1 ELSE 2 * TwoToThe(n - 1)

BigZero == [i \in 1..LimbCount |-> 0]

\* The natural n < 2^30 in limbs.
BigOf(n) ==
  [i \in 1..LimbCount |->
     CASE i = 1 -> n % LimbBase
       [] i = 2 -> (n \div LimbBase) % LimbBase
       [] i = 3 -> n \div (LimbBase * LimbBase)
       [] OTHER -> 0]

RECURSIVE AddLimbs(_, _, _, _)
AddLimbs(a, b, carry, acc) ==
  IF Len(acc) = LimbCount THEN acc
  ELSE LET t == a[Len(acc) + 1] + b[Len(acc) + 1] + carry
       IN  AddLimbs(a, b, t \div LimbBase, Append(acc, t % LimbBase))

BigPlus(a, b) == AddLimbs(a, b, 0, <<>>)

\* a - b for a >= b.
RECURSIVE SubLimbs(_, _, _, _)
SubLimbs(a, b, borrow, acc) ==
  IF Len(acc) = LimbCount THEN acc
  ELSE LET t == a[Len(acc) + 1] - b[Len(acc) + 1] - borrow
       IN  IF t < 0 THEN SubLimbs(a, b, 1, Append(acc, t + LimbBase))
           ELSE SubLimbs(a, b, 0, Append(acc, t))

BigMinus(a, b) == SubLimbs(a, b, 0, <<>>)

RECURSIVE LessFrom(_, _, _)
LessFrom(a, b, i) ==
  IF i = 0 THEN FALSE
  ELSE IF a[i] # b[i] THEN a[i] < b[i]
  ELSE LessFrom(a, b, i - 1)

BigLess(a, b) == LessFrom(a, b, LimbCount)

\* a * k for a natural k of at most fifteen bits.
RECURSIVE TimesLimbs(_, _, _, _)
TimesLimbs(a, k, carry, acc) ==
  IF Len(acc) = LimbCount THEN acc
  ELSE LET t == a[Len(acc) + 1] * k + carry
       IN  TimesLimbs(a, k, t \div LimbBase, Append(acc, t % LimbBase))

BigTimes(a, k) == TimesLimbs(a, k, 0, <<>>)

\* Quotient and remainder of a by a natural k of at most fifteen bits.
RECURSIVE OverLimbs(_, _, _, _, _)
OverLimbs(a, k, i, rem, acc) ==
  IF i = 0 THEN [quot |-> acc, rem |-> rem]
  ELSE LET cur == rem * LimbBase + a[i]
       IN  OverLimbs(a, k, i - 1, cur % k, <<cur \div k>> \o acc)

BigOver(a, k) == OverLimbs(a, k, LimbCount, 0, <<>>)

\* a * 2^d and the whole part of a / 2^d.
ShiftUp(a, d) ==
  BigTimes([i \in 1..LimbCount |->
              IF i <= d \div LimbBits THEN 0 ELSE a[i - d \div LimbBits]],
           TwoToThe(d % LimbBits))

ShiftDown(a, d) ==
  BigOver([i \in 1..LimbCount |->
             IF i + d \div LimbBits > LimbCount THEN 0 ELSE a[i + d \div LimbBits]],
          TwoToThe(d % LimbBits)).quot

RECURSIVE BitsOf(_)
BitsOf(n) == IF n = 0 THEN 0 ELSE 1 + BitsOf(n \div 2)

RECURSIVE BitLengthFrom(_, _)
BitLengthFrom(a, i) ==
  IF i = 0 THEN 0
  ELSE IF a[i] # 0 THEN (i - 1) * LimbBits + BitsOf(a[i])
  ELSE BitLengthFrom(a, i - 1)

BitLength(a) == BitLengthFrom(a, LimbCount)

\* The binary64 magnitude nearest to a, or to a value just above a when
\* inexact says that something below one unit of a was left out.
NearestTo(a, inexact) ==
  LET d == BitLength(a) - SignificantBits
  IN  IF d <= 0 THEN a
      ELSE LET q == ShiftDown(a, d)
               kept == ShiftUp(q, d)
               rest == BigMinus(a, kept)
               half == ShiftUp(BigOf(1), d - 1)
               up == \/ BigLess(half, rest)
                     \/ rest = half /\ (inexact \/ q[1] % 2 = 1)
           IN  IF up THEN BigPlus(kept, ShiftUp(BigOf(1), d)) ELSE kept

\* Every operation below takes its operands as values: v \in {e} binds v to
\* the value of e, so that a chain of operations is computed one at a time.
Nearest(a, inexact) == CHOOSE r \in {NearestTo(v, inexact) : v \in {a}} : TRUE

\* A number: a sign and a magnitude; zero is written without the sign.
Number(neg, mag) == [neg |-> neg /\ mag # BigZero, mag |-> mag]

\* The number a literal or a JSON value of t ten-thousandths denotes, t >= 0.
NumberOfTicks(t) ==
  CHOOSE r \in {Number(FALSE, Nearest(d.quot, d.rem # 0)) :
                 d \in {BigOver(ShiftUp(BigOf(t), FractionBits), 10000)}} : TRUE

\* x + y and x - y for x, y >= 0.
NumPlus(x, y) ==
  CHOOSE r \in {Number(FALSE, Nearest(BigPlus(a.mag, b.mag), FALSE)) :
                 a \in {x}, b \in {y}} : TRUE

NumMinus(x, y) ==
  CHOOSE r \in
    {IF BigLess(a.mag, b.mag)
     THEN Number(TRUE, Nearest(BigMinus(b.mag, a.mag), FALSE))
     ELSE Number(FALSE, Nearest(BigMinus(a.mag, b.mag), FALSE)) :
       a \in {x}, b \in {y}} : TRUE

NumLess(x, y) ==
  \E a \in {x}, b \in {y} :
    CASE a.neg /\ ~b.neg -> TRUE
      [] ~a.neg /\ b.neg -> FALSE
      [] a.neg /\ b.neg -> BigLess(b.mag, a.mag)
      [] OTHER -> BigLess(a.mag, b.mag)

NumMax(x, y) ==
  CHOOSE r \in {IF NumLess(a, b) THEN b ELSE a : a \in {x}, b \in {y}} : TRUE

\* x * k and x / k for x >= 0 and a whole k, 0 <= k < 2^15 (k >= 1 to divide).
NumTimes(x, k) ==
  CHOOSE r \in {Number(FALSE, Nearest(BigTimes(a.mag, k), FALSE)) : a \in {x}} : TRUE

NumOver(x, k) ==
  CHOOSE r \in {Number(FALSE, Nearest(d.quot, d.rem # 0)) :
                 d \in {BigOver(x.mag, k)}} : TRUE

\* Math.round(x) for x >= 0: the whole number nearest to x, a tie going up.
MathRound(x) ==
  CHOOSE r \in
    {whole[1] + LimbBase * whole[2] + LimbBase * LimbBase * whole[3] :
       whole \in {ShiftDown(BigPlus(x.mag, ShiftUp(BigOf(1), FractionBits - 1)),
                            FractionBits)}} : TRUE

\* Math.round(x * 1000) / 1000 (lines 121-122).
RoundedToMillis(x) ==
  CHOOSE r \in
    {Number(FALSE, Nearest(d.quot, d.rem # 0)) :
       d \in {BigOver(ShiftUp(BigOf(k), FractionBits), 1000) :
                k \in {MathRound(NumTimes(x, 1000))}}} : TRUE

(***************************************************************************)
(* The formatter on numbers, and a second pass over its own result: what   *)
(* exportVideoWithSubtitles does to the cues transcribeVideo stored        *)
(* (exportController.ts, lines 56-63).                                     *)
(***************************************************************************)
\* The cue list with every time as the number it is in the program.
NumbersOf(subtitles) ==
  [i \in 1..Len(subtitles) |->
     [subtitles[i] EXCEPT !.startTime = NumberOfTicks(@),
                          !.endTime = NumberOfTicks(@)]]

\* Lines 111-125 for one cue that does not end before it starts.
NumSlicesOf(sub, maxCharsPerLine, maxLines) ==
  LET segments == segmentText(sub.text, maxCharsPerLine, maxLines)
      duration == NumMinus(sub.endTime, sub.startTime)
      segmentDuration == NumOver(duration, Len(segments))
  IN  [k \in 1..Len(segments) |->
        LET startTime == NumPlus(sub.startTime, NumTimes(segmentDuration, k - 1))
            endTime == NumPlus(startTime, segmentDuration)
        IN  [id |-> 0,
             startTime |-> RoundedToMillis(startTime),
             endTime |-> RoundedToMillis(endTime),
             text |-> segments[k]]]

\* Lines 219-247 for cues that start at 0 or later.
NumAdjustTiming(subtitles) ==
  [index \in 1..Len(subtitles) |->
    LET sub == subtitles[index]
        startTime == sub.startTime
        atLeastMin == IF NumLess(NumMinus(sub.endTime, startTime),
                                 NumberOfTicks(MIN_DURATION))
                      THEN NumPlus(startTime, NumberOfTicks(MIN_DURATION))
                      ELSE sub.endTime
        atMostMax == IF NumLess(NumberOfTicks(MAX_DURATION),
                                NumMinus(atLeastMin, startTime))
                     THEN NumPlus(startTime, NumberOfTicks(MAX_DURATION))
                     ELSE atLeastMin
        beforeNext == NumMinus(subtitles[index + 1].startTime,
                               NumberOfTicks(NextCueGap))
        endTime == IF index < Len(subtitles) /\ NumLess(beforeNext, atMostMax)
                   THEN beforeNext
                   ELSE atMostMax
    IN  [sub EXCEPT
           !.startTime = NumMax(NumberOfTicks(0), startTime),
           !.endTime = NumMax(NumPlus(startTime, NumberOfTicks(DurationFloor)),
                              endTime)]]

\* Lines 106-129.
NumOptimizeSubtitles(subtitles, maxCharsPerLine, maxLines) ==
  NumAdjustTiming(Numbered(Flatten(
    [i \in 1..Len(subtitles) |->
       NumSlicesOf(subtitles[i], maxCharsPerLine, maxLines)])))

\* One or two cues of the text "a a" on the millisecond grid: the first
\* starts at 0 s, 0.137 s, 0.238 s or 1 s and lasts 0.6 s, 1.5 s or 5.2 s;
\* the second lasts 2 s and starts where the first ends, 0.1 s or 2 s later,
\* or, out of order, at 0.05 s.
ReoptimizeStarts == {0, 1370, 2380, 10000}
ReoptimizeLengths == {6000, 15000, 52000}
ReoptimizeGaps == {0, 1000, 20000}

ReoptimizeCues ==
  { <<Cue(1, s, s + d, <<97, 32, 97>>)>> :
      s \in ReoptimizeStarts, d \in ReoptimizeLengths }
  \cup
  { <<Cue(1, s, s + d, <<97, 32, 97>>),
      Cue(2, s + d + g, s + d + g + 20000, <<97, 32, 97>>)>> :
      s \in ReoptimizeStarts, d \in ReoptimizeLengths, g \in ReoptimizeGaps }
  \cup
  { <<Cue(1, s, s + d, <<97, 32, 97>>), Cue(2, 500, 20500, <<97, 32, 97>>)>> :
      s \in ReoptimizeStarts, d \in ReoptimizeLengths }

\* The layout of transcribeVideo, the one of the 9:16 ratio, which is the
\* same, and two layouts that cut "a a" in two.
ReoptimizeInputs ==
  { <<c, r>> :
      c \in ReoptimizeCues,
      r \in {OptimizeSubtitlesReq(40, 2), OptimizeForAspectRatioReq("9:16"),
              OptimizeSubtitlesReq(1, 1), OptimizeSubtitlesReq(1, 2)} }

InitReoptimize ==
  /\ ScriptIdle
  /\ CodecIdle
  /\ RestIdle
  /\ \E in \in ReoptimizeInputs : oSubs = in[1] /\ oReq = in[2]
  /\ oPc = "called"
  /\ oOut = <<>>
  /\ oError = "none"

\* The first pass: the cues as they are stored.
NumOptimizeCall ==
  /\ oPc = "called"
  /\ oOut' = NumOptimizeSubtitles(NumbersOf(oSubs), LayoutChars, LayoutLines)
  /\ oPc' = "done"
  /\ UNCHANGED <<oSubs, oReq, oError, oAgain, tvars, cvars, kvars, fBlocks,
                 vvars, jvars, pvars, gvars>>

\* The second pass, over the stored cues, with the same layout.
NumReoptimizeCall ==
  /\ oPc = "done"
  /\ oAgain' = NumOptimizeSubtitles(oOut, LayoutChars, LayoutLines)
  /\ oPc' = "again"
  /\ UNCHANGED <<oSubs, oReq, oOut, oError, tvars, cvars, kvars, fBlocks,
                 vvars, jvars, pvars, gvars>>

NextReoptimize ==
  \/ NumOptimizeCall
  \/ NumReoptimizeCall

SpecReoptimize == InitReoptimize /\ [][NextReoptimize]_vars

(***************************************************************************)
(* Script mapper: properties.                                              *)
(***************************************************************************)
Previous == IF Len(tVals) = 1 THEN tText ELSE tVals[Len(tVals) - 1]

\* s is a concatenation of keys of latinToCyrillicMap.
RECURSIVE BuiltFromLatinKeys(_)
BuiltFromLatinKeys(s) ==
  \/ s = <<>>
  \/ /\ <<s[1]>> \in LatinKeys
     /\ BuiltFromLatinKeys(Tail(s))
  \/ /\ Len(s) >= 2
     /\ <<s[1], s[2]>> \in LatinKeys
     /\ BuiltFromLatinKeys(Tail(Tail(s)))

ThereAndBack == tOps = <<"latinToCyrillic", "cyrillicToLatin">>

\* C4 as claimed: cyrillicToLatin(latinToCyrillic(s)) = s for every string s
\* built from the keys of the Latin-to-Cyrillic table.
C4_RoundTripAsClaimed ==
  (ThereAndBack /\ BuiltFromLatinKeys(tText)) => tVals[2] = tText

\* LJ NJ D+Z-caron Dz DZ dz DJ Dj dj: the two-letter keys whose Cyrillic letter
\* the reverse table spells otherwise (Lj Nj Dz-caron Dz-caron Dz-caron
\* dz-caron D-stroke D-stroke d-stroke).
LossyDigraphs ==
  { <<76, 74>>, <<78, 74>>, <<68, 381>>, <<68, 122>>, <<68, 90>>, <<100, 122>>,
    <<68, 74>>, <<68, 106>>, <<100, 106>> }

HasLossyDigraph(s) ==
  \E p \in 1..(Len(s) - 1) : <<s[p], s[p + 1]>> \in LossyDigraphs

\* C4 amended: cyrillicToLatin(latinToCyrillic(s)) = s for every string s built
\* from the keys of the table in which none of the two-letter sequences LJ, NJ,
\* DZ-caron, Dz, DZ, dz, DJ, Dj, dj occurs.
C4_RoundTrip ==
  (ThereAndBack /\ BuiltFromLatinKeys(tText) /\ ~HasLossyDigraph(tText))
    => tVals[2] = tText

\* "nja" went to U+045A U+0430 and came back.
C4_Witness ==
  /\ ThereAndBack
  /\ tText = <<110, 106, 97>>
  /\ tVals[1] = <<1114, 1072>>
  /\ tVals[2] = tText

\* C8: ensureCyrillic(ensureCyrillic(s)) = ensureCyrillic(s) for every string s.
C8_EnsureIdempotent ==
  tOps = <<"ensureCyrillic", "ensureCyrillic">> => tVals[2] = tVals[1]

\* A mixed string ("n", U+0448, "q": two Latin letters against one Cyrillic) was
\* converted by the first call and left alone by the second.
C8_Witness ==
  /\ tOps = <<"ensureCyrillic", "ensureCyrillic">>
  /\ tText = <<110, 1096, 113>>
  /\ tVals[1] = <<1085, 1096, 113>>
  /\ tVals[2] = tVals[1]

\* A code unit that is in neither table.
Unmapped(c) == <<c>> \notin LatinKeys /\ c \notin CyrillicKeys

RECURSIVE UnmappedOf(_)
UnmappedOf(s) ==
  IF s = <<>> THEN <<>>
  ELSE (IF Unmapped(Head(s)) THEN <<Head(s)>> ELSE <<>>) \o UnmappedOf(Tail(s))

Before(s, i) == SubSeq(s, 1, i - 1)
After(s, i) == SubSeq(s, i + 1, Len(s))

\* C9: in both directions a code unit absent from the tables is copied to the
\* output in place: what precedes it and what follows it are converted on their
\* own (it is never taken as half of a digraph), and the unmapped code units of
\* the output are those of the input, in order.
C9_PassThrough ==
  /\ (tOps # <<>> /\ tOps[Len(tOps)] = "latinToCyrillic") =>
       /\ UnmappedOf(Current) = UnmappedOf(Previous)
       /\ \A i \in 1..Len(Previous) :
            Unmapped(Previous[i]) =>
              Current = latinToCyrillic(Before(Previous, i)) \o <<Previous[i]>>
                          \o latinToCyrillic(After(Previous, i))
  /\ (tOps # <<>> /\ tOps[Len(tOps)] = "cyrillicToLatin") =>
       /\ UnmappedOf(Current) = UnmappedOf(Previous)
       /\ \A i \in 1..Len(Previous) :
            Unmapped(Previous[i]) =>
              Current = cyrillicToLatin(Before(Previous, i)) \o <<Previous[i]>>
                          \o cyrillicToLatin(After(Previous, i))

\* "n j" with a space between the letters: U+043D, space, U+0458.
C9_Witness ==
  /\ tOps = <<"latinToCyrillic">>
  /\ tText = <<110, 32, 106>>
  /\ tVals[1] = <<1085, 32, 1112>>

\* The digraphs lj nj dz-caron dz dj with their lowercase Cyrillic letters.
LowercaseDigraphs ==
  { <<<<108, 106>>, 1113>>, <<<<110, 106>>, 1114>>, <<<<100, 382>>, 1119>>,
    <<<<100, 122>>, 1119>>, <<<<100, 106>>, 1106>> }

UpperUnit(c) == IF c = 382 THEN 381 ELSE c - 32

\* Each digraph in lowercase, title case and all caps; the capital of a
\* Cyrillic letter of U+0450-U+045F is 80 below it.
DigraphVariants ==
  UNION { { <<d[1], d[2]>>,
            <<<<UpperUnit(d[1][1]), d[1][2]>>, d[2] - 80>>,
            <<<<UpperUnit(d[1][1]), UpperUnit(d[1][2])>>, d[2] - 80>> }
          : d \in LowercaseDigraphs }

\* C10: wherever the input holds a digraph (all caps, title case or lowercase),
\* latinToCyrillic writes its one Cyrillic letter of matching case for the two
\* code units, between the conversions of what precedes and what follows; and
\* "Njegova kuca" (with c-acute) becomes the Cyrillic string of the example.
C10_DigraphFirst ==
  tOps = <<"latinToCyrillic">> =>
    /\ tText = Njegova => tVals[1] = NjegovaCyrillic
    /\ \A p \in 1..(Len(tText) - 1) : \A v \in DigraphVariants :
         <<tText[p], tText[p + 1]>> = v[1] =>
           tVals[1] = latinToCyrillic(Before(tText, p)) \o <<v[2]>>
                        \o latinToCyrillic(After(tText, p + 1))

C10_Witness ==
  /\ tOps = <<"latinToCyrillic">>
  /\ tText = Njegova
  /\ tVals[1] = NjegovaCyrillic

(***************************************************************************)
(* Formatter and timing normalizer: properties.                            *)
(***************************************************************************)
\* The input cues are sorted by start and none runs into the next.
SortedNonOverlapping(subtitles) ==
  \A i \in 1..(Len(subtitles) - 1) :
    /\ subtitles[i].startTime <= subtitles[i + 1].startTime
    /\ subtitles[i].endTime <= subtitles[i + 1].startTime

\* Every input cue starts at 0 or later and ends after it starts.
WellTimed(subtitles) ==
  \A i \in 1..Len(subtitles) :
    0 <= subtitles[i].startTime /\ subtitles[i].startTime < subtitles[i].endTime

\* C1: for input cues sorted by start that do not overlap, and any layout, the
\* cues optimizeSubtitles returns do not overlap: out[i].endTime <=
\* out[i+1].startTime for all i.  Stated for the well-timed inputs among them
\* (0 <= start < end), on which it already fails.
C1_NoOverlapAsClaimed ==
  (oPc = "done" /\ SortedNonOverlapping(oSubs) /\ WellTimed(oSubs)) =>
    \A i \in 1..(Len(oOut) - 1) : oOut[i].endTime <= oOut[i + 1].startTime

\* C2: every cue optimizeSubtitles returns has endTime > startTime, whatever
\* the input timing.
C2_EndAfterStartAsClaimed ==
  oPc = "done" => \A i \in 1..Len(oOut) : oOut[i].endTime > oOut[i].startTime

\* A line that is one word: not empty and without white space.
IsOneWord(line) == line # <<>> /\ \A i \in 1..Len(line) : line[i] \notin WhiteSpace

\* A cue text of at most maxLines lines, each of at most maxCharsPerLine code
\* units unless it is a single longer word.
WithinLayout(text, maxCharsPerLine, maxLines) ==
  /\ Len(LinesOf(text)) <= maxLines
  /\ \A k \in 1..Len(LinesOf(text)) :
       \/ Len(LinesOf(text)[k]) <= maxCharsPerLine
       \/ IsOneWord(LinesOf(text)[k])

\* C5: for every text and every layout with maxCharsPerLine > 0 and maxLines >
\* 0, every cue produced has at most maxLines lines and every line has at most
\* maxCharsPerLine characters unless it is a single word longer than that.
C5_WithinLayoutAsClaimed ==
  (oPc = "done" /\ LayoutChars > 0 /\ LayoutLines > 0) =>
    \A i \in 1..Len(oOut) : WithinLayout(oOut[i].text, LayoutChars, LayoutLines)

\* The call was made on one cue whose text has 90 code units, under (40, 2).
NinetyUnderForty ==
  /\ oPc = "done"
  /\ Len(oSubs) = 1
  /\ Len(oSubs[1].text) = 90
  /\ LayoutChars = 40
  /\ LayoutLines = 2

\* C6 as claimed: with the layout (40, 2) a 90-character text of space-separated
\* words none longer than 40 gives at most ceil(90/40/2) = 2 cues, and every
\* line has at most 40 characters.
C6_TwoCuesAsClaimed ==
  NinetyUnderForty =>
    /\ Len(oOut) <= 2
    /\ \A i \in 1..Len(oOut) : \A k \in 1..Len(LinesOf(oOut[i].text)) :
         Len(LinesOf(oOut[i].text)[k]) <= 40

\* C6 amended: such a text gives at most 3 cues, and every line has at most 40
\* characters.
C6_ThreeCues ==
  NinetyUnderForty =>
    /\ Len(oOut) <= 3
    /\ \A i \in 1..Len(oOut) : \A k \in 1..Len(LinesOf(oOut[i].text)) :
         Len(LinesOf(oOut[i].text)[k]) <= 40

\* The words of 1, 39, 1, 39 and 6 letters fill five lines, that is three cues.
C6_Witness ==
  /\ NinetyUnderForty
  /\ oSubs[1].text = TextOfWords(<<1, 39, 1, 39, 6>>)
  /\ Len(oOut) = 3
  /\ oOut[1].text = Word(1) \o <<10>> \o Word(39)
  /\ oOut[3].text = Word(6)

\* C7: a call with maxCharsPerLine <= 0 or maxLines <= 0 fails with an
\* invalid-configuration error and returns no cue list.
C7_FailsFastAsClaimed ==
  (oPc = "done" /\ (LayoutChars <= 0 \/ LayoutLines <= 0)) =>
    (oError # "none" /\ oOut = <<>>)

\* The letters of the source script: the ASCII letters and the one-unit keys
\* of the Latin-to-Cyrillic table (the letters with a caron, an acute or a
\* stroke of the Serbian Latin alphabet).
LatinLetters == AsciiLetters \cup {k[1] : k \in {key \in LatinKeys : Len(key) = 1}}

\* C11: isCyrillic reports the Cyrillic script exactly when the text holds
\* more Cyrillic code points than letters of the source (Latin) script; on
\* equal counts, the empty text included, it reports the source script.
C11_MajorityAsClaimed ==
  tOps = <<"isCyrillic">> =>
    (tVals[1] <=> CountIn(tText, CyrillicBlock) > CountIn(tText, LatinLetters))

\* No input cue was split: the call returned as many cues as it was given.
NoneSplit == oPc = "done" /\ oSubs # <<>> /\ Len(oOut) = Len(oSubs)

\* C14, as stated: a cue shorter than 1.0 s with no cue after it keeps its
\* start and ends 1.0 s after it.
C14_ExtendedAsClaimed ==
  LET last == oSubs[Len(oSubs)]
  IN  (NoneSplit /\ last.endTime - last.startTime < 10000) =>
        /\ oOut[Len(oOut)].startTime = last.startTime
        /\ oOut[Len(oOut)].endTime = last.startTime + 10000

\* C14, amended: the same for a cue whose start is not negative (a negative
\* start is moved to 0).
C14_Extended ==
  LET last == oSubs[Len(oSubs)]
  IN  (NoneSplit /\ last.endTime - last.startTime < 10000 /\ last.startTime >= 0) =>
        /\ oOut[Len(oOut)].startTime = last.startTime
        /\ oOut[Len(oOut)].endTime = last.startTime + 10000

\* The cue {5.0, 5.2} on its own came back as {5.0, 6.0}.
C14_Witness ==
  /\ oPc = "done"
  /\ Len(oSubs) = 1
  /\ oSubs[1].startTime = 50000
  /\ oSubs[1].endTime = 52000
  /\ Len(oOut) = 1
  /\ oOut[1].startTime = 50000
  /\ oOut[1].endTime = 60000

\* The window of cue i needs no repair: it starts at 0 or later, on a whole
\* millisecond, lasts from 1.0 s to 5.0 s, and ends 0.1 s or more before the
\* next cue starts.
WindowInOrder(subtitles, i) ==
  /\ subtitles[i].startTime >= 0
  /\ subtitles[i].startTime % 10 = 0
  /\ subtitles[i].endTime % 10 = 0
  /\ subtitles[i].endTime - subtitles[i].startTime >= 10000
  /\ subtitles[i].endTime - subtitles[i].startTime <= 50000
  /\ i < Len(subtitles) => subtitles[i].endTime <= subtitles[i + 1].startTime - 1000

\* The text is one line that fits the width, with no white space but single
\* spaces between its words.
OneCleanLine(text, maxCharsPerLine) ==
  /\ Len(text) <= maxCharsPerLine
  /\ \A p \in 1..Len(text) :
       text[p] \in WhiteSpace =>
         /\ text[p] = 32
         /\ p > 1 /\ p < Len(text)
         /\ text[p + 1] \notin WhiteSpace

OneCueSplit ==
  /\ oPc = "done"
  /\ Len(oSubs) = 1
  /\ WellTimed(oSubs)
  /\ Len(oOut) >= 2

\* Whether the time t is start + k * delta to the millisecond, where delta is
\* the n-th part of the parent window (t is within half a millisecond).
AtSlice(t, k, n) ==
  LET exact == n * oSubs[1].startTime + k * (oSubs[1].endTime - oSubs[1].startTime)
  IN  Distance(n * t, exact) <= 5 * n

C21_OnlyEndMoves ==
  oPc = "done" =>
    LET given == optimized(oSubs, LayoutChars, LayoutLines)
    IN  /\ Len(oOut) = Len(given)
        /\ \A i \in 1..Len(given) :
             /\ oOut[i].id = given[i].id
             /\ oOut[i].text = given[i].text
             /\ oOut[i].startTime =
                  (IF given[i].startTime < 0 THEN 0 ELSE given[i].startTime)

\* The cues {-2, -2} and {5, 5.2} came back with the starts 0 and 5; the end
\* of the second was moved to 6.
C21_Witness ==
  /\ oPc = "done"
  /\ Len(oSubs) = 2
  /\ oSubs[1].startTime = -20000
  /\ oSubs[2].startTime = 50000
  /\ oSubs[2].endTime = 52000
  /\ Len(oOut) = 2
  /\ oOut[1].startTime = 0
  /\ oOut[2].startTime = 50000
  /\ oOut[2].endTime = 60000

\* C22: after adjustTiming every cue lasts at most 5.0 s and at least 0.5 s,
\* and at least 1.0 s if it is the last cue or the next cue starts 1.1 s or
\* more after its own start.
C22_DurationBoundsAsClaimed ==
  oPc = "done" =>
    \A i \in 1..Len(oOut) :
      LET lasts == oOut[i].endTime - oOut[i].startTime
      IN  /\ lasts <= MAX_DURATION
          /\ lasts >= DurationFloor
          /\ (\/ i = Len(oOut)
              \/ oOut[i + 1].startTime >= oOut[i].startTime + MIN_DURATION + NextCueGap)
               => lasts >= MIN_DURATION

\* The text has no white space but single spaces and single line breaks, each
\* between two characters that are not white space.
WhitespaceNormalized(text) ==
  \A p \in 1..Len(text) :
    text[p] \in WhiteSpace =>
      /\ text[p] \in {32, 10}
      /\ p > 1 /\ p < Len(text)
      /\ text[p + 1] \notin WhiteSpace

\* C23: for any input text, the text of every cue the formatter produces has
\* no leading or trailing white space, no run of two spaces or more, and no
\* white space other than single spaces between words and the single line
\* breaks between lines.  Stated for the layouts with a positive width and a
\* positive number of lines, on which it already fails.
C23_NormalizedAsClaimed ==
  (oPc = "done" /\ LayoutChars >= 1 /\ LayoutLines >= 1) =>
    \A i \in 1..Len(oOut) : WhitespaceNormalized(oOut[i].text)

\* The words of a text: what stands between its runs of white space.
WordsOf(text) == SelectSeq(SplitWhiteSpace(text), LAMBDA word : word # <<>>)

\* The words of the texts of a cue list, cue after cue.
WordsOfCues(cues) == Flatten([i \in 1..Len(cues) |-> WordsOf(cues[i].text)])

\* C28: the formatter loses no text: under every layout with a positive width
\* and a positive number of lines, the words of the cues it returns, read in
\* order across lines and cues, are the words of the input texts, none
\* dropped, doubled or out of order.
C28_NoTextLost ==
  (oPc = "done" /\ LayoutChars >= 1 /\ LayoutLines >= 1) =>
    WordsOfCues(oOut) = WordsOfCues(oSubs)

\* The text "a a a" under the layout (1, 2) came back as the
\* cues "a" over "a", and "a".
C28_Witness ==
  /\ oPc = "done"
  /\ Len(oSubs) = 1
  /\ oSubs[1].text = <<97, 32, 97, 32, 97>>
  /\ LayoutChars = 1
  /\ LayoutLines = 2
  /\ Len(oOut) = 2
  /\ oOut[1].text = <<97, 10, 97>>
  /\ oOut[2].text = <<97>>

(***************************************************************************)
(* Format codec: properties.                                               *)
(***************************************************************************)
\* The same number of cues in the same order, with the same text and with
\* start and end within 1 ms (10 ticks).
SameCues(parsed, cues) ==
  /\ Len(parsed) = Len(cues)
  /\ \A i \in 1..Len(cues) :
       /\ parsed[i].text = cues[i].text
       /\ Distance(parsed[i].startTime, cues[i].startTime) <= 10
       /\ Distance(parsed[i].endTime, cues[i].endTime) <= 10

\* Every cue has a text without blank lines and times in whole milliseconds.
PlainCues(cues) ==
  \A i \in 1..Len(cues) :
    /\ NonBlank(LinesOf(cues[i].text)) = LinesOf(cues[i].text)
    /\ cues[i].startTime % 10 = 0
    /\ cues[i].endTime % 10 = 0

\* C3: for both formats, parsing the text produced by serializing a cue list
\* returns the same cues: same number and order, same text, start and end
\* within 1 ms.  Stated for the cue lists with a text on every cue and times
\* in whole milliseconds, on which it already fails.
C3_RoundTripAsClaimed ==
  (cPc = "parsed" /\ PlainCues(cCues)) => SameCues(cParsed, cCues)

\* HH:MM:SS,mmm: two digits, colon, two digits, colon, two digits, a comma and
\* three digits, and nothing else.
IsSrtTimecode(str) ==
  /\ Len(str) = 12
  /\ TimecodeAt(str, 1)
  /\ str[9] = 44

\* C12: for every non-negative time, secondsToSrtTime gives a timecode
\* HH:MM:SS,mmm with a three-digit millisecond field, and srtTimeToSeconds
\* reads it back to less than 1 ms (10 ticks) from the time.  Stated for the
\* times that are not an odd multiple of 0.05 ms, whose rounding does not
\* depend on the binary representation of the number.
C12_TimecodeAsClaimed ==
  (kPc = "read" /\ kT % 10 # 5) =>
    (IsSrtTimecode(kCode) /\ Distance(kBack, kT) < 10)

\* The cue a well-formed block describes.
CueOfBlock(kind) ==
  CASE kind = "cue" -> Cue(1, 10000, 25000, <<97>>)
    [] kind = "cueTwoLines" -> Cue(7, 600000, 610000, <<98, 10, 99>>)
    [] kind = "digitsThenLetter" -> Cue(2, 10000, 25000, <<97>>)

\* The cues of the blocks of the given kinds among those the file was written
\* from, in file order.
CuesOfBlocks(kinds) ==
  LET kept == SelectSeq(fBlocks, LAMBDA k : k \in kinds)
  IN  [i \in 1..Len(kept) |-> CueOfBlock(kept[i])]

\* C13, as stated: a block with fewer than three lines, a non-numeric index
\* ("x", "2x") or no timecode pair is skipped, and the well-formed blocks
\* before and after it are returned in file order.
C13_SkipsMalformedAsClaimed ==
  cFormat = "file" /\ cPc = "parsed" =>
    cParsed = CuesOfBlocks({"cue", "cueTwoLines"})

\* C13, amended: as above, but an index line that begins with digits is
\* numeric for parseSRT whatever follows the digits ("2x" is read as 2), and
\* such a block is returned too.
C13_SkipsMalformed ==
  cFormat = "file" /\ cPc = "parsed" =>
    cParsed = CuesOfBlocks({"cue", "cueTwoLines", "digitsThenLetter"})

\* A file with a malformed block between two well-formed ones was parsed.
C13_Witness ==
  /\ cFormat = "file"
  /\ cPc = "parsed"
  /\ fBlocks = <<"cue", "wordIndex", "cueTwoLines">>
  /\ Len(cParsed) = 2

(***************************************************************************)
(* Empty input.                                                            *)
(***************************************************************************)
\* C17: empty input is valid and never an error: optimizeSubtitles and
\* convertToCyrillic of an empty cue list return an empty cue list, parseSRT
\* of an empty or blank text returns an empty list, and none of them throws.
C17_EmptyIsValid ==
  /\ (oPc = "done" /\ oSubs = <<>>) => (oOut = <<>> /\ oError = "none")
  /\ (cPc = "parsed" /\ Trim(cFile) = <<>>) => cParsed = <<>>

\* convertToCyrillic was called with no cue and parseSRT with the text
\* " \n\n"; both have returned.
C17_Witness ==
  /\ oPc = "done"
  /\ oSubs = <<>>
  /\ oReq.fn = "convertToCyrillic"
  /\ oOut = <<>>
  /\ cPc = "parsed"
  /\ cFile = <<32, 10, 10>>
  /\ cParsed = <<>>

(***************************************************************************)
(* Transcription: properties.                                              *)
(***************************************************************************)
\* C18: in every cue transcribeVideo produces, originalText holds the
\* pre-transliteration form of the cue's text, as transcribed.  Stated for
\* the segments that are not split (each gives one cue), whose text is one
\* clean line: there originalText is the text of the segment.
C18_OriginalTextAsClaimed ==
  (vPc = "done" /\ Len(vSubs) = Len(vSegs)) =>
    \A i \in 1..Len(vSegs) :
      OneCleanLine(vSegs[i].text, 40) => vSubs[i].originalText = vSegs[i].text

\* The segments as cues with the transcribed text, passed through the
\* formatter with the layout of transcribeVideo (40, 2).
Rewrapped(segments) ==
  optimizeSubtitles(
    [index \in 1..Len(segments) |->
      Cue(index, segments[index].start, segments[index].end, segments[index].text)],
    40, 2)

\* C24: when transcribeVideo is called with convertToCyrillic = false no
\* transliteration is applied: the text of every cue returned and stored is
\* the transcribed text of the segments, only re-wrapped by the formatter.
C24_FlagOffKeepsScriptAsClaimed ==
  (vPc = "done" /\ ~vConvert) =>
    /\ Len(vSubs) = Len(Rewrapped(vSegs))
    /\ \A i \in 1..Len(vSubs) : vSubs[i].text = Rewrapped(vSegs)[i].text

(***************************************************************************)
(* The cue list of a project: properties.                                  *)
(***************************************************************************)
\* C19: after any sequence of the operations that produce or edit the cue
\* list of a project, the ids are 1-based and contiguous in list order: the
\* i-th cue has the id i.
C19_ContiguousIdsAsClaimed ==
  \A i \in 1..Len(jSubs) : jSubs[i].id = i

(***************************************************************************)
(* The stages as transforms: properties.                                   *)
(***************************************************************************)
\* splitSubtitle has returned.
SplitReturned == oReq.fn = "splitSubtitle" /\ oPc \in {"done", "again"}

\* The split time is strictly inside the cue at the index.
SplitApplies ==
  /\ oReq.index < Len(oSubs)
  /\ oSubs[oReq.index + 1].startTime < oReq.splitTime
  /\ oReq.splitTime < oSubs[oReq.index + 1].endTime

\* The cue at the index was replaced by two cues that meet at the split time,
\* the ids are 1..n+1, and every other cue has the times and the text it had.
SplitWindows ==
  LET at == oReq.index + 1
  IN  /\ Len(oOut) = Len(oSubs) + 1
      /\ \A k \in 1..Len(oOut) : oOut[k].id = k
      /\ oOut[at].startTime = oSubs[at].startTime
      /\ oOut[at].endTime = oReq.splitTime
      /\ oOut[at + 1].startTime = oReq.splitTime
      /\ oOut[at + 1].endTime = oSubs[at].endTime
      /\ \A k \in 1..Len(oSubs) :
           LET to == IF k < at THEN k ELSE k + 1
           IN  k # at =>
                 /\ oOut[to].startTime = oSubs[k].startTime
                 /\ oOut[to].endTime = oSubs[k].endTime
                 /\ oOut[to].text = oSubs[k].text

\* C25, as stated: splitSubtitle(list, index, t) with t strictly inside the
\* cue at index replaces that cue by two cues [start, t] and [t, end] whose
\* texts are the first floor(w/2) and the remaining words of the original
\* text in order, renumbers the ids to 1..n+1 and leaves the times and the
\* text of all other cues unchanged; otherwise the list is returned unchanged.
C25_SplitInTwoAsClaimed ==
  SplitReturned =>
    IF SplitApplies
    THEN LET at == oReq.index + 1
             words == WordsOf(oSubs[at].text)
         IN  /\ SplitWindows
             /\ WordsOf(oOut[at].text) = SubSeq(words, 1, Len(words) \div 2)
             /\ WordsOf(oOut[at + 1].text)
                  = SubSeq(words, Len(words) \div 2 + 1, Len(words))
    ELSE oOut = oSubs

\* C25, amended: the same, where the w words of the text are its pieces
\* between single spaces (a line break does not separate two words, and two
\* spaces in a row hold an empty word between them): the first text is the
\* first floor(w/2) pieces and the second the remaining ones, with the
\* spaces between them as they were, so that the two texts with a space
\* between them are the original text (without the space if w = 1, where the
\* first text is empty).
C25_SplitInTwo ==
  SplitReturned =>
    IF SplitApplies
    THEN LET at == oReq.index + 1
             w == CountIn(oSubs[at].text, {32}) + 1
         IN  /\ SplitWindows
             /\ IF w = 1
                THEN oOut[at].text = <<>> /\ oOut[at + 1].text = oSubs[at].text
                ELSE /\ oOut[at].text \o <<32>> \o oOut[at + 1].text = oSubs[at].text
                     /\ CountIn(oOut[at].text, {32}) = w \div 2 - 1
    ELSE oOut = oSubs

\* The first of the cues "a b c", "a", "" (ids 1, 3, 4) was split at 1 s into
\* "a" and "b c"; the four cues have the ids 1 to 4.
C25_Witness ==
  /\ SplitReturned
  /\ Len(oSubs) = 3
  /\ oReq.index = 0
  /\ oReq.splitTime = 10000
  /\ Len(oOut) = 4
  /\ oOut[1].text = <<97>>
  /\ oOut[1].endTime = 10000
  /\ oOut[2].text = <<98, 32, 99>>
  /\ oOut[2].startTime = 10000
  /\ oOut[3].id = 3
  /\ oOut[4].id = 4

C26_DeletedStaysGoneAsClaimed ==
  \A id \in pDeleted : id \notin pStore

\* C30: a project never stays in the status 'transcribing': every
\* transcribeVideo request that set it is answered, and when it is answered
\* it has set the status of the project, if that is still in the store, to
\* 'transcribed' (with the cues stored) or to 'error'; so a project in the
\* store with the status 'transcribing' leaves that status.
C30_LeavesTranscribing ==
  /\ \A c \in CallIds : (pCalls[c].pc = "awaiting") ~> (pCalls[c].pc = "answered")
  /\ \A id \in ProjectIds :
       (id \in pStore /\ pStatus[id] = "transcribing")
         ~> (id \notin pStore \/ pStatus[id] \in {"transcribed", "error"})
  /\ [][ \A c \in CallIds :
           (pCalls[c].pc = "awaiting" /\ pCalls'[c].pc = "answered") =>
             (pCalls[c].id \in pStore' =>
                /\ pStatus'[pCalls[c].id] \in {"transcribed", "error"}
                /\ pStatus'[pCalls[c].id] = "transcribed"
                     => pCues'[pCalls[c].id] = "stored") ]_vars

\* Two requests for project 1 were under way at once; one was answered 200
\* and the other 500, and the project is in the store with one of the two
\* final statuses.
C30_Witness ==
  /\ pCalls[1] = [id |-> 1, pc |-> "answered", answer |-> 200]
  /\ pCalls[2] = [id |-> 1, pc |-> "answered", answer |-> 500]
  /\ 1 \in pStore
  /\ pStatus[1] = "error"
  /\ pCues[1] = "stored"

(***************************************************************************)
(* The password gate: properties.                                          *)
(***************************************************************************)
CarriesPassword(req) ==
  req.cookie = "right" \/ req.header = "right" \/ req.query = "right"

\* C27: a request on /api, /uploads or /exports, the auth and health
\* endpoints apart, reaches a video or subtitle route or a static file only
\* if it carries the site password (cookie, header or query parameter); any
\* other such request is answered 401.
C27_GateAsClaimed ==
  ( /\ gStage = "answered"
    /\ \E mount \in {"api", "uploads", "exports"} : UnderMount(gReq.path, mount)
    /\ ~OpenEndpoint(gReq) ) =>
      /\ gAnswer \in {"route", "file"} => CarriesPassword(gReq)
      /\ ~CarriesPassword(gReq) => gAnswer = "401"


(***************************************************************************)
(* A second pass of the formatter: properties.                             *)
(***************************************************************************)
\* C29: re-optimizing is a no-op on already optimized cues: for every cue
\* list with 0 <= start < end per cue, sorted and not overlapping, and every
\* positive layout, optimizeSubtitles applied to the result of
\* optimizeSubtitles returns that result, in ids, times and text.
C29_SecondPassIsNoOpAsClaimed ==
  (/\ oPc = "again"
   /\ WellTimed(oSubs)
   /\ SortedNonOverlapping(oSubs)
   /\ LayoutChars >= 1
   /\ LayoutLines >= 1) => oAgain = oOut

====
